-------------------------- MODULE MatchmakerProofs --------------------------
(***************************************************************************)
(* Proofs about Matchmaker on top of PortFeed, for any number of ports,    *)
(* protocols and subscribers and any size of the channels.                 *)
(***************************************************************************)
EXTENDS Matchmaker, Integers, TLAPS

-----------------------------------------------------------------------------
(* The inductive invariant.                                                *)

\* The positions in a channel whose PortEvent is about a port.
About(ch, p) == {i \in DOMAIN ch : ch[i].port = p}

\* Once it has read its channel, the reader knows v of port p.
WillKnow(ch, vw, p, v) ==
    /\ About(ch, p) = {} => vw[p] = v
    /\ \A i \in About(ch, p) :
           (\A j \in About(ch, p) : j <= i) => Told(ch[i]) = v

\* What subscriber s must have been sent by now of port p.
Due(s, p) == IF p \in unsent[s] THEN None ELSE served[p]

OneLive ==
    \A s, t \in Subscribers : phase[s] = "live" /\ phase[t] = "live" => s = t

SubscriberOK(s) ==
    /\ unsent[s] # {} => phase[s] = "catching up"
    /\ phase[s] = "off" =>
           channel[s] = <<>> /\ view[s] = [p \in Ports |-> None]
    /\ phase[s] \in {"catching up", "live"} /\ receiving[s] =>
           \A p \in Ports : WillKnow(channel[s], view[s], p, Due(s, p))

FeedOK == OneLive /\ \A s \in Subscribers : SubscriberOK(s)

\* Nothing is ever put into open_ports, and what the matchmaker has read of a
\* served port it listens on.
MatchmakerOK ==
    /\ state # "panicked" => receiving[Me]
    /\ open_ports = [p \in Ports |-> None]
    /\ \A p \in Ports :
           view[Me][p] # None => <<p, view[Me][p]>> \in listening

IInv == TypeOK /\ FeedOK /\ MatchmakerOK

-----------------------------------------------------------------------------
(* PortEvents and channels.                                                *)

\* The PortEvent about a port and its protocol.
LEMMA TellsFacts ==
    ASSUME NEW p \in Ports, NEW v \in Protocols \cup {None}
    PROVE  /\ Tells(p, v) \in Messages
           /\ Tells(p, v).port = p
           /\ Told(Tells(p, v)) = v
<1>1. Tells(p, v) \in Messages
  BY DEF Messages
<1>2. CASE v = None
  BY <1>1, <1>2 DEF Tells, Told
<1>3. CASE v # None
  BY <1>1, <1>3 DEF Tells, Told
<1> QED
  BY <1>2, <1>3

\* What a PortEvent can be.
LEMMA MessageFacts ==
    ASSUME NEW e \in Messages
    PROVE  /\ e.port \in Ports
           /\ Told(e) \in Protocols \cup {None}
           /\ e.type = "Open" => e.protocol \in Protocols /\ Told(e) = e.protocol
           /\ e.type = "Close" => Told(e) = None
<1>1. PICK p \in Ports, v \in Protocols \cup {None} : e = Tells(p, v)
  BY DEF Messages
<1>2. CASE v = None
  BY <1>1, <1>2 DEF Tells, Told
<1>3. CASE v # None
  BY <1>1, <1>3 DEF Tells, Told
<1> QED
  BY <1>2, <1>3

\* The last PortEvent in the channel about its port decides.
LEMMA Appended ==
    ASSUME NEW ch \in Seq(Messages), NEW e \in Messages, NEW vw, NEW p \in Ports,
           NEW v, p # e.port => WillKnow(ch, vw, p, v)
    PROVE  WillKnow(Append(ch, e), vw, p, IF p = e.port THEN Told(e) ELSE v)
<1> DEFINE new == Append(ch, e)
           n == Len(ch) + 1
<1>1. /\ new \in Seq(Messages) /\ Len(new) = n /\ n \in Nat /\ n >= 1
      /\ DOMAIN new = 1..n /\ new[n] = e /\ DOMAIN ch = 1..(n - 1)
      /\ \A i \in 1..(n - 1) : new[i] = ch[i]
  OBVIOUS
<1> HIDE DEF new, n
<1>2. CASE p = e.port
  <2>1. n \in About(new, p)
    BY <1>1, <1>2 DEF About
  <2>2. ASSUME NEW i \in About(new, p), \A j \in About(new, p) : j <= i
        PROVE  i = n
    BY <1>1, <2>1, <2>2 DEF About
  <2>3. WillKnow(new, vw, p, Told(e))
    BY <1>1, <2>1, <2>2 DEF WillKnow
  <2> QED
    BY <1>2, <2>3 DEF new
<1>3. CASE p # e.port
  <2>1. About(new, p) = About(ch, p)
    BY <1>1, <1>3 DEF About
  <2>2. \A i \in About(ch, p) : new[i] = ch[i]
    BY <1>1 DEF About
  <2>3. WillKnow(new, vw, p, v)
    BY <1>3, <2>1, <2>2 DEF WillKnow
  <2> QED
    BY <1>3, <2>3 DEF new
<1> QED
  BY <1>2, <1>3

\* Reading the first PortEvent does not change what will be known.
LEMMA ReadOne ==
    ASSUME NEW ch \in Seq(Messages), ch # <<>>, NEW p \in Ports,
           NEW vw \in [Ports -> Protocols \cup {None}],
           NEW v, WillKnow(ch, vw, p, v)
    PROVE  WillKnow(Tail(ch),
                    [vw EXCEPT ![Head(ch).port] = Told(Head(ch))], p, v)
<1> DEFINE e == Head(ch)
           known == [vw EXCEPT ![e.port] = Told(e)]
           rest == Tail(ch)
           n == Len(ch)
<1>1. /\ rest \in Seq(Messages) /\ Len(rest) = n - 1 /\ n \in Nat /\ n >= 1
      /\ DOMAIN rest = 1..(n - 1) /\ ch[1] = e /\ DOMAIN ch = 1..n
      /\ \A i \in 1..(n - 1) : rest[i] = ch[i + 1]
      /\ e \in Messages
  OBVIOUS
<1>2. known[p] = IF p = e.port THEN Told(e) ELSE vw[p]
  OBVIOUS
<1> HIDE DEF e, known, rest, n
<1>3. \A i \in About(rest, p) :
          /\ i \in Int /\ i >= 1
          /\ i + 1 \in About(ch, p) /\ rest[i] = ch[i + 1]
  BY <1>1 DEF About
<1>4. \A j \in About(ch, p) :
          /\ j \in Int /\ j >= 1
          /\ j # 1 => j - 1 \in About(rest, p)
  BY <1>1 DEF About
<1>5. 1 \in About(ch, p) <=> p = e.port
  BY <1>1 DEF About
<1>6. ASSUME About(rest, p) = {}
      PROVE  known[p] = v
  <2>1. \A j \in About(ch, p) : j = 1
    BY <1>4, <1>6
  <2>2. CASE p = e.port
    <3>1. 1 \in About(ch, p) /\ \A j \in About(ch, p) : j <= 1
      BY <1>5, <2>1, <2>2
    <3> QED
      BY <1>1, <1>2, <2>2, <3>1 DEF WillKnow
  <2>3. CASE p # e.port
    BY <1>2, <1>5, <2>1, <2>3 DEF WillKnow
  <2> QED
    BY <2>2, <2>3
<1>7. ASSUME NEW i \in About(rest, p), \A j \in About(rest, p) : j <= i
      PROVE  Told(rest[i]) = v
  <2>1. ASSUME NEW j \in About(ch, p) PROVE j <= i + 1
    <3>1. CASE j = 1
      BY <1>3, <3>1
    <3>2. CASE j # 1
      <4>1. j - 1 <= i
        BY <1>4, <1>7, <3>2
      <4> QED
        BY <1>3, <1>4, <4>1
    <3> QED
      BY <3>1, <3>2
  <2> QED
    BY <1>3, <2>1 DEF WillKnow
<1>8. WillKnow(rest, known, p, v)
  BY <1>6, <1>7 DEF WillKnow
<1> QED
  BY <1>8 DEF e, known, rest

-----------------------------------------------------------------------------
(* The feed.  A step of one subscriber's feed leaves the others alone.     *)

\* A subscriber that a step does not concern.
LEMMA OthersKept ==
    ASSUME NEW t, SubscriberOK(t), served' = served,
           phase'[t] = phase[t], unsent'[t] = unsent[t],
           channel'[t] = channel[t], view'[t] = view[t],
           receiving'[t] = receiving[t]
    PROVE  SubscriberOK(t)'
<1>1. \A p : Due(t, p)' = Due(t, p)
  BY DEF Due
<1> QED
  BY <1>1 DEF SubscriberOK

\* The channel of a subscriber gets one PortEvent more.
LEMMA PostFacts ==
    ASSUME FeedTypeOK, NEW s \in Subscribers, NEW e \in Messages, Post(s, e)
    PROVE  /\ channel' \in [Subscribers -> Seq(Messages)]
           /\ \A t \in Subscribers : Len(channel'[t]) <= PortBufferSize
           /\ channel'[s] = Append(channel[s], e)
           /\ \A t \in Subscribers \ {s} : channel'[t] = channel[t]
<1>1. channel' = [channel EXCEPT ![s] = Append(@, e)]
      /\ Len(channel[s]) < PortBufferSize
      /\ channel \in [Subscribers -> Seq(Messages)]
      /\ \A t \in Subscribers : Len(channel[t]) <= PortBufferSize
  BY DEF Post, FeedTypeOK
<1>2. Append(channel[s], e) \in Seq(Messages)
      /\ Len(Append(channel[s], e)) = Len(channel[s]) + 1
      /\ Len(channel[s]) \in Nat
  BY <1>1
<1>3. /\ channel'[s] = Append(channel[s], e)
      /\ \A t \in Subscribers \ {s} : channel'[t] = channel[t]
      /\ channel' \in [Subscribers -> Seq(Messages)]
  BY <1>1, <1>2
<1> QED
  BY <1>1, <1>2, <1>3, FeedAssumption

\* Every subscriber that is live, and has not gone away, is told of a change.
LEMMA ChangeStep ==
    ASSUME FeedTypeOK, FeedOK,
           NEW p \in Ports, NEW v \in Protocols \cup {None}, Change(p, v)
    PROVE  FeedTypeOK' /\ FeedOK'
<1>1. /\ \A s \in Subscribers : phase[s] # "catching up"
      /\ served' = [served EXCEPT ![p] = v]
      /\ UNCHANGED <<phase, unsent, receiving, view>>
  BY DEF Change
<1>2. served' \in [Ports -> Protocols \cup {None}] /\ served'[p] = v
      /\ \A q \in Ports \ {p} : served'[q] = served[q]
  BY <1>1 DEF FeedTypeOK
<1>3. \A s \in Subscribers : unsent[s] = {}
  BY <1>1 DEF FeedOK, SubscriberOK
<1>4. Tells(p, v) \in Messages /\ Tells(p, v).port = p /\ Told(Tells(p, v)) = v
  BY TellsFacts
<1>5. ASSUME NEW s \in Subscribers, Reachable(s), Post(s, Tells(p, v))
      PROVE  FeedTypeOK' /\ FeedOK'
  <2>1. /\ channel' \in [Subscribers -> Seq(Messages)]
        /\ \A t \in Subscribers : Len(channel'[t]) <= PortBufferSize
        /\ channel'[s] = Append(channel[s], Tells(p, v))
        /\ \A t \in Subscribers \ {s} : channel'[t] = channel[t]
    BY <1>4, <1>5, PostFacts
  <2>2. FeedTypeOK'
    BY <1>1, <1>2, <2>1 DEF FeedTypeOK, Phases
  <2>3. \A t \in Subscribers : phase[t] = "live" => t = s
    BY <1>5 DEF FeedOK, OneLive, Reachable
  <2>4. phase[s] = "live" /\ receiving[s]
    BY <1>5 DEF Reachable
  <2>5. ASSUME NEW q \in Ports
        PROVE  WillKnow(channel'[s], view'[s], q, Due(s, q)')
    <3>1. WillKnow(channel[s], view[s], q, served[q])
      <4>1. Due(s, q) = served[q]
        BY <1>3 DEF Due
      <4> QED
        BY <2>4, <4>1 DEF FeedOK, SubscriberOK
    <3>2. channel[s] \in Seq(Messages)
      BY DEF FeedTypeOK
    <3>3. WillKnow(Append(channel[s], Tells(p, v)), view[s], q,
                   IF q = Tells(p, v).port THEN Told(Tells(p, v))
                   ELSE served[q])
      BY <1>4, <3>1, <3>2, Appended
    <3>4. Due(s, q)' = IF q = p THEN v ELSE served[q]
      BY <1>1, <1>2, <1>3 DEF Due
    <3> QED
      BY <1>1, <1>4, <2>1, <3>3, <3>4
  <2>6. OneLive'
    BY <1>1 DEF FeedOK, OneLive
  <2>7. SubscriberOK(s)'
    BY <1>1, <1>3, <2>4, <2>5 DEF SubscriberOK
  <2>8. ASSUME NEW t \in Subscribers \ {s} PROVE SubscriberOK(t)'
    BY <1>1, <1>3, <2>1, <2>3 DEF FeedOK, SubscriberOK
  <2> QED
    BY <2>2, <2>6, <2>7, <2>8 DEF FeedOK
<1>6. ASSUME \A s \in Subscribers : ~Reachable(s), UNCHANGED channel
      PROVE  FeedTypeOK' /\ FeedOK'
  <2>1. FeedTypeOK'
    BY <1>1, <1>2, <1>6 DEF FeedTypeOK, Phases
  <2>2. FeedOK'
    BY <1>1, <1>3, <1>6 DEF FeedOK, OneLive, SubscriberOK, Reachable
  <2> QED
    BY <2>1, <2>2
<1> QED
  BY <1>5, <1>6 DEF Change

\* Before it has been sent anything, a subscriber knows of no port.
LEMMA BeginStep ==
    ASSUME FeedTypeOK, FeedOK, NEW s \in Subscribers, Begin(s)
    PROVE  FeedTypeOK' /\ FeedOK'
<1>1. /\ phase[s] = "off"
      /\ phase' = [phase EXCEPT ![s] = "catching up"]
      /\ unsent' = [unsent EXCEPT ![s] = {p \in Ports : served[p] # None}]
      /\ UNCHANGED <<served, channel, receiving, view>>
  BY DEF Begin
<1>2. /\ phase'[s] = "catching up"
      /\ unsent'[s] = {p \in Ports : served[p] # None}
      /\ \A t \in Subscribers \ {s} :
             phase'[t] = phase[t] /\ unsent'[t] = unsent[t]
  BY <1>1 DEF FeedTypeOK
<1>3. FeedTypeOK'
  BY <1>1 DEF FeedTypeOK, Phases
<1>4. ASSUME NEW p \in Ports
      PROVE  WillKnow(channel'[s], view'[s], p, Due(s, p)')
  <2>1. channel[s] = <<>> /\ view[s] = [q \in Ports |-> None]
    BY <1>1 DEF FeedOK, SubscriberOK
  <2>2. About(<<>>, p) = {}
    BY DEF About
  <2>3. view[s][p] = None
    BY <2>1
  <2>4. Due(s, p)' = None
    BY <1>1, <1>2 DEF Due
  <2> QED
    BY <1>1, <2>1, <2>2, <2>3, <2>4 DEF WillKnow
<1>5. SubscriberOK(s)'
  BY <1>2, <1>4 DEF SubscriberOK
<1>6. FeedOK'
  <2>1. OneLive'
    BY <1>2, ZenonT(30) DEF FeedOK, OneLive
  <2>2. ASSUME NEW t \in Subscribers \ {s} PROVE SubscriberOK(t)'
    BY <1>1, <1>2, OthersKept DEF FeedOK
  <2> QED
    BY <1>5, <2>1, <2>2 DEF FeedOK
<1> QED
  BY <1>3, <1>6

\* One served port more has been sent.
LEMMA SendServedStep ==
    ASSUME FeedTypeOK, FeedOK, NEW s \in Subscribers, NEW p \in Ports,
           SendServed(s, p)
    PROVE  FeedTypeOK' /\ FeedOK'
<1>1. /\ p \in unsent[s] /\ receiving[s]
      /\ Post(s, Tells(p, served[p]))
      /\ unsent' = [unsent EXCEPT ![s] = @ \ {p}]
      /\ UNCHANGED <<served, phase, receiving, view>>
  BY DEF SendServed
<1>2. served[p] \in Protocols \cup {None}
  BY DEF FeedTypeOK
<1>3. /\ Tells(p, served[p]) \in Messages /\ Tells(p, served[p]).port = p
      /\ Told(Tells(p, served[p])) = served[p]
  BY <1>2, TellsFacts
<1>4. /\ channel' \in [Subscribers -> Seq(Messages)]
      /\ \A t \in Subscribers : Len(channel'[t]) <= PortBufferSize
      /\ channel'[s] = Append(channel[s], Tells(p, served[p]))
      /\ \A t \in Subscribers \ {s} : channel'[t] = channel[t]
  BY <1>1, <1>3, PostFacts
<1>5. /\ unsent'[s] = unsent[s] \ {p}
      /\ \A t \in Subscribers \ {s} : unsent'[t] = unsent[t]
  BY <1>1 DEF FeedTypeOK
<1>6. FeedTypeOK'
  BY <1>1, <1>4 DEF FeedTypeOK, Phases
<1>7. phase[s] = "catching up"
  BY <1>1 DEF FeedOK, SubscriberOK
<1>8. ASSUME NEW q \in Ports
      PROVE  WillKnow(channel'[s], view'[s], q, Due(s, q)')
  <2>1. WillKnow(channel[s], view[s], q, Due(s, q))
    BY <1>1, <1>7 DEF FeedOK, SubscriberOK
  <2>2. channel[s] \in Seq(Messages)
    BY DEF FeedTypeOK
  <2>3. WillKnow(Append(channel[s], Tells(p, served[p])), view[s], q,
                 IF q = Tells(p, served[p]).port THEN Told(Tells(p, served[p]))
                 ELSE Due(s, q))
    BY <1>3, <2>1, <2>2, Appended
  <2>4. Due(s, q)' = IF q = p THEN served[p] ELSE Due(s, q)
    BY <1>1, <1>5 DEF Due
  <2> QED
    BY <1>1, <1>3, <1>4, <2>3, <2>4
<1>9. SubscriberOK(s)'
  BY <1>1, <1>7, <1>8 DEF SubscriberOK
<1>10. FeedOK'
  <2>1. OneLive'
    BY <1>1 DEF FeedOK, OneLive
  <2>2. ASSUME NEW t \in Subscribers \ {s} PROVE SubscriberOK(t)'
    BY <1>1, <1>4, <1>5, OthersKept DEF FeedOK
  <2> QED
    BY <1>9, <2>1, <2>2 DEF FeedOK
<1> QED
  BY <1>6, <1>10

\* A feed that ends, because its reader has gone or is replaced.
LEMMA GiveUpStep ==
    ASSUME FeedTypeOK, FeedOK, NEW s \in Subscribers, GiveUp(s)
    PROVE  FeedTypeOK' /\ FeedOK'
<1>1. /\ phase[s] = "catching up"
      /\ phase' = [phase EXCEPT ![s] = "over"]
      /\ unsent' = [unsent EXCEPT ![s] = {}]
      /\ UNCHANGED <<served, channel, receiving, view>>
  BY DEF GiveUp
<1>2. /\ phase'[s] = "over" /\ unsent'[s] = {}
      /\ \A t \in Subscribers \ {s} :
             phase'[t] = phase[t] /\ unsent'[t] = unsent[t]
  BY <1>1 DEF FeedTypeOK
<1>3. FeedTypeOK'
  BY <1>1 DEF FeedTypeOK, Phases
<1>4. SubscriberOK(s)'
  BY <1>2 DEF SubscriberOK
<1>5. FeedOK'
  <2>1. OneLive'
    BY <1>2 DEF FeedOK, OneLive
  <2>2. ASSUME NEW t \in Subscribers \ {s} PROVE SubscriberOK(t)'
    BY <1>1, <1>2, OthersKept DEF FeedOK
  <2> QED
    BY <1>4, <2>1, <2>2 DEF FeedOK
<1> QED
  BY <1>3, <1>5

\* A subscriber goes live, and the one before it is cut off.
LEMMA GoLiveStep ==
    ASSUME FeedTypeOK, FeedOK, NEW s \in Subscribers, GoLive(s)
    PROVE  FeedTypeOK' /\ FeedOK'
<1>1. /\ phase[s] = "catching up" /\ unsent[s] = {}
      /\ phase' = [t \in Subscribers |->
             IF t = s THEN "live"
             ELSE IF phase[t] = "live" THEN "over" ELSE phase[t]]
      /\ UNCHANGED <<served, unsent, channel, receiving, view>>
  BY DEF GoLive
<1>2. FeedTypeOK'
  BY <1>1 DEF FeedTypeOK, Phases
<1>3. /\ phase'[s] = "live"
      /\ \A t \in Subscribers \ {s} :
             phase'[t] = IF phase[t] = "live" THEN "over" ELSE phase[t]
  BY <1>1
<1>4. FeedOK'
  <2>1. OneLive'
    BY <1>3 DEF OneLive
  <2>2. ASSUME NEW t \in Subscribers PROVE SubscriberOK(t)'
    <3>1. \A p \in Ports : Due(t, p)' = Due(t, p)
      BY <1>1 DEF Due
    <3> QED
      BY <1>1, <1>3, <3>1 DEF FeedOK, SubscriberOK
  <2> QED
    BY <2>1, <2>2 DEF FeedOK
<1> QED
  BY <1>2, <1>4

\* A PortEvent moves from the channel to what its reader knows.
LEMMA ReadStep ==
    ASSUME FeedTypeOK, FeedOK, NEW s \in Subscribers, Read(s)
    PROVE  /\ FeedTypeOK' /\ FeedOK'
           /\ Head(channel[s]) \in Messages
           /\ view'[s] = [view[s] EXCEPT
                  ![Head(channel[s]).port] = Told(Head(channel[s]))]
           /\ \A t \in Subscribers \ {s} : view'[t] = view[t]
<1> DEFINE e == Head(channel[s])
<1>1. /\ receiving[s] /\ channel[s] # <<>>
      /\ view' = [view EXCEPT ![s][e.port] = Told(e)]
      /\ channel' = [channel EXCEPT ![s] = Tail(@)]
      /\ UNCHANGED <<served, phase, unsent, receiving>>
  BY DEF Read
<1>2. /\ channel[s] \in Seq(Messages) /\ e \in Messages
      /\ Tail(channel[s]) \in Seq(Messages)
      /\ Len(Tail(channel[s])) <= PortBufferSize
      /\ view[s] \in [Ports -> Protocols \cup {None}]
  BY <1>1, FeedAssumption DEF FeedTypeOK
<1>3. e.port \in Ports /\ Told(e) \in Protocols \cup {None}
  BY <1>2, MessageFacts
<1> HIDE DEF e
<1>4. /\ channel'[s] = Tail(channel[s])
      /\ view'[s] = [view[s] EXCEPT ![e.port] = Told(e)]
      /\ \A t \in Subscribers \ {s} :
             channel'[t] = channel[t] /\ view'[t] = view[t]
  BY <1>1 DEF FeedTypeOK
<1>5. FeedTypeOK'
  <2>1. view'[s] \in [Ports -> Protocols \cup {None}]
    BY <1>2, <1>3, <1>4
  <2>2. /\ view' \in [Subscribers -> [Ports -> Protocols \cup {None}]]
        /\ channel' \in [Subscribers -> Seq(Messages)]
    BY <1>1, <1>2, <1>4, <2>1 DEF FeedTypeOK
  <2>3. \A t \in Subscribers : Len(channel'[t]) <= PortBufferSize
    BY <1>2, <1>4 DEF FeedTypeOK
  <2> QED
    BY <1>1, <2>2, <2>3 DEF FeedTypeOK, Phases
<1>6. ASSUME NEW p \in Ports, WillKnow(channel[s], view[s], p, Due(s, p))
      PROVE  WillKnow(channel'[s], view'[s], p, Due(s, p)')
  <2>1. WillKnow(Tail(channel[s]), [view[s] EXCEPT ![e.port] = Told(e)], p,
                 Due(s, p))
    BY <1>1, <1>2, <1>6, ReadOne DEF e
  <2>2. Due(s, p)' = Due(s, p)
    BY <1>1 DEF Due
  <2> QED
    BY <1>4, <2>1, <2>2
<1>7. SubscriberOK(s)'
  BY <1>1, <1>6 DEF FeedOK, SubscriberOK
<1>8. FeedOK'
  <2>1. OneLive'
    BY <1>1 DEF FeedOK, OneLive
  <2>2. ASSUME NEW t \in Subscribers \ {s} PROVE SubscriberOK(t)'
    BY <1>1, <1>4, OthersKept DEF FeedOK
  <2> QED
    BY <1>7, <2>1, <2>2 DEF FeedOK
<1> QED
  BY <1>2, <1>4, <1>5, <1>8 DEF e

\* A reader that goes away needs to know nothing any more.
LEMMA GoAwayStep ==
    ASSUME FeedTypeOK, FeedOK, NEW s \in Subscribers, GoAway(s)
    PROVE  /\ FeedTypeOK' /\ FeedOK' /\ UNCHANGED view
           /\ \A t \in Subscribers \ {s} : receiving'[t] = receiving[t]
<1>1. /\ receiving' = [receiving EXCEPT ![s] = FALSE]
      /\ channel' = [channel EXCEPT ![s] = <<>>]
      /\ UNCHANGED <<served, phase, unsent, view>>
  BY DEF GoAway
<1>2. /\ receiving'[s] = FALSE /\ channel'[s] = <<>>
      /\ \A t \in Subscribers \ {s} :
             channel'[t] = channel[t] /\ receiving'[t] = receiving[t]
      /\ receiving' \in [Subscribers -> BOOLEAN]
      /\ channel' \in [Subscribers -> Seq(Messages)]
  BY <1>1 DEF FeedTypeOK
<1>3. \A t \in Subscribers : Len(channel'[t]) <= PortBufferSize
  <2>1. Len(channel'[s]) <= PortBufferSize
    BY <1>2, FeedAssumption
  <2>2. \A t \in Subscribers \ {s} : Len(channel'[t]) <= PortBufferSize
    BY <1>2 DEF FeedTypeOK
  <2> QED
    BY <2>1, <2>2
<1>4. FeedTypeOK'
  BY <1>1, <1>2, <1>3 DEF FeedTypeOK, Phases
<1>5. SubscriberOK(s)'
  BY <1>1, <1>2 DEF FeedOK, SubscriberOK
<1>6. FeedOK'
  <2>1. OneLive'
    BY <1>1 DEF FeedOK, OneLive
  <2>2. ASSUME NEW t \in Subscribers \ {s} PROVE SubscriberOK(t)'
    BY <1>1, <1>2, OthersKept DEF FeedOK
  <2> QED
    BY <1>5, <2>1, <2>2 DEF FeedOK
<1> QED
  BY <1>1, <1>2, <1>4, <1>6

\* Every step of the manager keeps the feed in order.
LEMMA FeedStep ==
    ASSUME FeedTypeOK, FeedOK, Feed
    PROVE  /\ FeedTypeOK' /\ FeedOK'
           /\ UNCHANGED <<receiving, view>>
<1>1. UNCHANGED <<receiving, view>>
  BY DEF Feed, Change, Begin, SendServed, GiveUp, GoLive
<1> QED
  BY <1>1, ChangeStep, BeginStep, SendServedStep, GiveUpStep, GoLiveStep
  DEF Feed

-----------------------------------------------------------------------------
(* The matchmaker.                                                         *)

\* Nothing is served, known or listened on.
LEMMA InitialStates == Init => IInv
<1> SUFFICES ASSUME Init PROVE IInv
  OBVIOUS
<1>1. TypeOK
  <2>1. <<>> \in Seq(Messages) /\ Len(<<>>) <= PortBufferSize
    BY FeedAssumption
  <2>2. FeedTypeOK
    BY <2>1 DEF Init, FeedInit, FeedTypeOK, Phases
  <2> QED
    BY <2>2 DEF Init, TypeOK
<1>2. FeedOK
  <2>1. OneLive
    BY DEF Init, FeedInit, OneLive
  <2>2. \A s \in Subscribers : SubscriberOK(s)
    BY DEF Init, FeedInit, SubscriberOK
  <2> QED
    BY <2>1, <2>2 DEF FeedOK
<1>3. MatchmakerOK
  BY MeAssumption DEF Init, FeedInit, MatchmakerOK
<1> QED
  BY <1>1, <1>2, <1>3 DEF IInv

\* listen is called for the port that the matchmaker learns to be served.
LEMMA HandleOpenStep ==
    ASSUME IInv, HandleOpen
    PROVE  IInv'
<1>1. /\ Event.type = "Open" /\ Read(Me)
      /\ listening' = listening \cup {<<Event.port, Event.protocol>>}
      /\ UNCHANGED <<state, registryVars, open_ports>>
  BY DEF HandleOpen, Receives
<1>2. /\ FeedTypeOK' /\ FeedOK' /\ Event \in Messages
      /\ view'[Me] = [view[Me] EXCEPT ![Event.port] = Told(Event)]
  BY <1>1, ReadStep, MeAssumption DEF IInv, TypeOK, Event
<1>3. /\ Event.port \in Ports /\ Event.protocol \in Protocols
      /\ Told(Event) = Event.protocol
  BY <1>1, <1>2, MessageFacts
<1>4. TypeOK'
  BY <1>1, <1>2, <1>3 DEF IInv, TypeOK, registryVars
<1>5. UNCHANGED receiving
  BY <1>1 DEF Read
<1>6. view[Me] \in [Ports -> Protocols \cup {None}]
  BY MeAssumption DEF IInv, TypeOK, FeedTypeOK
<1>7. MatchmakerOK'
  BY <1>1, <1>2, <1>3, <1>5, <1>6 DEF IInv, MatchmakerOK
<1> QED
  BY <1>2, <1>4, <1>7 DEF IInv

\* mute is called for no server: open_ports has none.
LEMMA HandleCloseStep ==
    ASSUME IInv, HandleClose
    PROVE  IInv'
<1>1. /\ Event.type = "Close" /\ Read(Me)
      /\ listening' = listening \ {<<Event.port, open_ports[Event.port]>>}
      /\ open_ports' = [open_ports EXCEPT ![Event.port] = None]
      /\ UNCHANGED <<state, registryVars>>
  BY DEF HandleClose, Receives
<1>2. /\ FeedTypeOK' /\ FeedOK' /\ Event \in Messages
      /\ view'[Me] = [view[Me] EXCEPT ![Event.port] = Told(Event)]
  BY <1>1, ReadStep, MeAssumption DEF IInv, TypeOK, Event
<1>3. Event.port \in Ports /\ Told(Event) = None
  BY <1>1, <1>2, MessageFacts
<1>4. open_ports' = open_ports /\ open_ports[Event.port] = None
  BY <1>1, <1>3 DEF IInv, MatchmakerOK
<1>5. TypeOK'
  BY <1>1, <1>2, <1>4 DEF IInv, TypeOK, registryVars
<1>6. UNCHANGED receiving
  BY <1>1 DEF Read
<1>7. view[Me] \in [Ports -> Protocols \cup {None}]
  BY MeAssumption DEF IInv, TypeOK, FeedTypeOK
<1>8. ASSUME NEW p \in Ports, view'[Me][p] # None
      PROVE  <<p, view'[Me][p]>> \in listening'
  <2>1. view'[Me][p] = view[Me][p]
    BY <1>2, <1>3, <1>7, <1>8
  <2>2. <<p, view[Me][p]>> \in listening
    BY <1>8, <2>1 DEF IInv, MatchmakerOK
  <2> QED
    BY <1>1, <1>4, <1>8, <2>1, <2>2
<1>9. MatchmakerOK'
  BY <1>1, <1>4, <1>6, <1>8 DEF IInv, MatchmakerOK
<1> QED
  BY <1>2, <1>5, <1>9 DEF IInv

\* The panic drops the Receiver.
LEMMA PanicStep ==
    ASSUME IInv, Panic
    PROVE  IInv'
<1>1. /\ state' = "panicked" /\ GoAway(Me)
      /\ UNCHANGED <<registryVars, open_ports, listening>>
  BY DEF Panic
<1>2. FeedTypeOK' /\ FeedOK' /\ UNCHANGED view
  BY <1>1, GoAwayStep, MeAssumption DEF IInv, TypeOK
<1> QED
  BY <1>1, <1>2 DEF IInv, TypeOK, MatchmakerOK, registryVars

\* A step of the manager or of another subscriber.
LEMMA EnvironmentStep ==
    ASSUME IInv,
           Manager \/ \E s \in Subscribers \ {Me} : OtherReader(s)
    PROVE  IInv'
<1>1. UNCHANGED <<state, registryVars, open_ports, listening>>
  BY DEF Manager, OtherReader
<1>2. /\ FeedTypeOK' /\ FeedOK'
      /\ view'[Me] = view[Me] /\ receiving'[Me] = receiving[Me]
  <2>1. CASE Manager
    BY <2>1, FeedStep DEF Manager, IInv, TypeOK
  <2>2. ASSUME NEW s \in Subscribers \ {Me}, Read(s)
        PROVE  /\ FeedTypeOK' /\ FeedOK'
               /\ view'[Me] = view[Me] /\ receiving'[Me] = receiving[Me]
    <3>1. UNCHANGED receiving
      BY <2>2 DEF Read
    <3> QED
      BY <2>2, <3>1, ReadStep, MeAssumption DEF IInv, TypeOK
  <2>3. ASSUME NEW s \in Subscribers \ {Me}, GoAway(s)
        PROVE  /\ FeedTypeOK' /\ FeedOK'
               /\ view'[Me] = view[Me] /\ receiving'[Me] = receiving[Me]
    BY <2>3, GoAwayStep, MeAssumption DEF IInv, TypeOK
  <2> QED
    BY <2>1, <2>2, <2>3 DEF OtherReader
<1> QED
  BY <1>1, <1>2 DEF IInv, TypeOK, MatchmakerOK, registryVars

\* A step that leaves the feed and the ports alone.
LEMMA RegistryStep ==
    ASSUME IInv,
           \/ \E q \in Protocols : RegisterClient(q) \/ RegisterServer(q)
           \/ Run
           \/ UNCHANGED vars
    PROVE  IInv'
<1>1. UNCHANGED <<served, phase, unsent, channel, receiving, view, open_ports,
                  listening>>
  BY DEF RegisterClient, RegisterServer, Run, vars, feedVars
<1>2. /\ state' \in {"running", state}
      /\ state = "panicked" => state' = "panicked"
      /\ protocol_clients' \subseteq Protocols
      /\ protocol_servers' \subseteq Protocols
  BY DEF RegisterClient, RegisterServer, Run, vars, registryVars, IInv, TypeOK
<1>3. FeedTypeOK'
  BY <1>1 DEF IInv, TypeOK, FeedTypeOK
<1>4. TypeOK'
  BY <1>1, <1>2, <1>3 DEF IInv, TypeOK
<1>5. FeedOK'
  <2>1. OneLive'
    BY <1>1 DEF IInv, FeedOK, OneLive
  <2>2. ASSUME NEW t \in Subscribers PROVE SubscriberOK(t)'
    BY <1>1, OthersKept DEF IInv, FeedOK
  <2> QED
    BY <2>1, <2>2 DEF FeedOK
<1>6. MatchmakerOK'
  BY <1>1, <1>2 DEF IInv, MatchmakerOK
<1> QED
  BY <1>4, <1>5, <1>6 DEF IInv

\* Every step keeps the invariant.
LEMMA Invariance == IInv /\ [Next]_vars => IInv'
<1> SUFFICES ASSUME IInv, [Next]_vars PROVE IInv'
  OBVIOUS
<1>1. CASE HandlePortEvent \/ ChannelClosed
  <2>1. \/ HandleOpen \/ HandleClose \/ Panic
    BY <1>1 DEF HandlePortEvent, HandleOpenPanics, ChannelClosed
  <2> QED
    BY <2>1, HandleOpenStep, HandleCloseStep, PanicStep
<1>2. CASE Manager \/ \E s \in Subscribers \ {Me} : OtherReader(s)
  BY <1>2, EnvironmentStep
<1>3. CASE \/ \E q \in Protocols : RegisterClient(q) \/ RegisterServer(q)
           \/ Run
           \/ UNCHANGED vars
  BY <1>3, RegistryStep
<1> QED
  BY <1>1, <1>2, <1>3 DEF Next

\* The invariant holds in all reachable states.
LEMMA Inductive == Spec => []IInv
BY InitialStates, Invariance, PTL DEF Spec

-----------------------------------------------------------------------------
(* Results.                                                                *)

\* The variables keep their types: no channel exceeds its capacity, and only
\* ports and protocols of PortEvents are listened on.
THEOREM TypeCorrect == Spec => []TypeOK
<1>1. IInv => TypeOK
  BY DEF IInv
<1> QED
  BY <1>1, Inductive, PTL

\* A matchmaker that runs, is live and has read all its PortEvents listens on
\* every served port with the protocol of its service.
THEOREM ServedPortsAreListenedOn == Spec => []ServedPortsListen
<1>1. ASSUME IInv, state = "running", phase[Me] = "live", channel[Me] = <<>>,
             NEW p \in Ports, served[p] # None
      PROVE  <<p, served[p]>> \in listening
  <2>1. SubscriberOK(Me) /\ receiving[Me]
    BY <1>1, MeAssumption DEF IInv, FeedOK, MatchmakerOK
  <2>2. WillKnow(<<>>, view[Me], p, Due(Me, p)) /\ unsent[Me] = {}
    BY <1>1, <2>1 DEF SubscriberOK
  <2>3. About(<<>>, p) = {}
    BY DEF About
  <2>4. view[Me][p] = served[p]
    BY <2>2, <2>3 DEF WillKnow, Due
  <2> QED
    BY <1>1, <2>4 DEF IInv, MatchmakerOK
<1>2. IInv => ServedPortsListen
  BY <1>1 DEF ServedPortsListen
<1> QED
  BY <1>2, Inductive, PTL
=============================================================================
