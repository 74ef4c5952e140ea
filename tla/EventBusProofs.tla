--------------------------- MODULE EventBusProofs ---------------------------
(***************************************************************************)
(* What the proofs about the services need to know of the event bus: its   *)
(* operations keep it well-typed, a publish adds nothing to what was sent  *)
(* but the event it publishes, and a consumer is handed only what was sent.*)
(***************************************************************************)
EXTENDS EventBus, SequenceTheorems, TLAPS

\* Appending to a sequence adds the element to its range.
LEMMA AppendRange ==
  ASSUME NEW S, NEW s \in Seq(S), NEW e \in S
  PROVE  Append(s, e) \in Seq(S) /\ Range(Append(s, e)) = Range(s) \cup {e}
<1>1. /\ Append(s, e) \in Seq(S)
      /\ Len(s) \in Nat
      /\ DOMAIN s = 1..Len(s)
      /\ DOMAIN Append(s, e) = 1..(Len(s) + 1)
      /\ Append(s, e)[Len(s) + 1] = e
      /\ \A i \in 1..Len(s) : Append(s, e)[i] = s[i]
  OBVIOUS
<1>2. 1..(Len(s) + 1) = (1..Len(s)) \cup {Len(s) + 1}
  BY <1>1
<1>3. Range(Append(s, e)) = {Append(s, e)[i] : i \in 1..Len(s)} \cup {Append(s, e)[Len(s) + 1]}
  BY <1>1, <1>2, Zenon DEF Range
<1>4. {Append(s, e)[i] : i \in 1..Len(s)} = Range(s)
  BY <1>1, Zenon DEF Range
<1> QED BY <1>1, <1>3, <1>4

\* Writing a longer sequence to one topic-partition adds just what the sequence
\* gained to what was sent on the topic.
LEMMA WriteOne ==
  ASSUME NEW t \in Topics, NEW p \in Partitions, NEW e, NEW s \in Seq(Events),
         log \in Logs, log' = [log EXCEPT ![t][p] = s],
         Range(s) = Range(log[t][p]) \cup {e}
  PROVE  /\ log' \in Logs
         /\ \A u \in Topics : Sent(u)' = IF u = t THEN Sent(u) \cup {e} ELSE Sent(u)
<1>1. log' \in Logs
  BY DEF Logs
<1>2. \A u \in Topics, q \in Partitions :
        log'[u][q] = IF u = t /\ q = p THEN s ELSE log[u][q]
  BY DEF Logs
<1>3. \A q \in Partitions : q # p => log'[t][q] = log[t][q]
  BY <1>2
<1>4. Range(log'[t][p]) = Range(log[t][p]) \cup {e}
  BY <1>2
<1>5. \A u \in Topics \ {t} : Sent(u)' = Sent(u)
  BY <1>2 DEF Sent
<1>6. ASSUME NEW f PROVE f \in Sent(t)' <=> f \in Sent(t) \cup {e}
  <2>1. f \in Sent(t) <=> \E q \in Partitions : f \in Range(log[t][q])
    BY DEF Sent
  <2>2. f \in Sent(t)' <=> \E q \in Partitions : f \in Range(log'[t][q])
    BY DEF Sent
  <2> QED BY <2>1, <2>2, <1>3, <1>4
<1>7. Sent(t)' = Sent(t) \cup {e}
  BY <1>6
<1> QED BY <1>1, <1>5, <1>7

\* A step that writes nothing to the log sends nothing.
LEMMA SilentStep ==
  ASSUME log' = log
  PROVE  \A u : Sent(u)' = Sent(u)
BY DEF Sent

\* A disturbance stays within the budget.
LEMMA DisturbStep ==
  ASSUME NEW kind, disturbances \in 0..MaxDisturbances, Disturb(kind)
  PROVE  disturbances' \in 0..MaxDisturbances
BY BusAssumption DEF Disturb

\* What was sent is well-typed.
LEMMA SentTyped ==
  ASSUME BusTypeOK, NEW u \in Topics
  PROVE  Sent(u) \subseteq Events
<1>1. \A p \in Partitions : log[u][p] \in Seq(Events)
  BY DEF BusTypeOK, Logs
<1>2. \A p \in Partitions : Range(log[u][p]) \subseteq Events
  BY <1>1 DEF Range
<1> QED BY <1>2 DEF Sent

\* What a publish can do, acknowledged or not: the bus stays well-typed, nothing
\* sent is taken back and nothing but the event is new.
LEMMA PublishStep ==
  ASSUME NEW t \in Topics, NEW e \in Events, BusTypeOK, UNCHANGED offsets,
         Acknowledged(t, e) \/ Unacknowledged(t, e)
  PROVE  /\ BusTypeOK'
         /\ \A u \in Topics : Sent(u) \subseteq Sent(u)'
         /\ \A u \in Topics \ {t} : Sent(u)' = Sent(u)
         /\ Sent(t)' \subseteq Sent(t) \cup {e}
<1> DEFINE p == PartitionOf[t][e.order]
           s == log[t][p]
<1>1. p \in Partitions
  <2>1. e.order \in Orders
    BY DEF Events
  <2> QED BY <2>1, BusAssumption
<1>2. s \in Seq(Events) /\ log \in Logs
  BY <1>1 DEF BusTypeOK, Logs
<1>3. /\ Append(s, e) \in Seq(Events)
      /\ Range(Append(s, e)) = Range(s) \cup {e}
  BY <1>2, AppendRange
<1>4. /\ Append(Append(s, e), e) \in Seq(Events)
      /\ Range(Append(Append(s, e), e)) = Range(s) \cup {e}
  <2> DEFINE s1 == Append(s, e)
  <2>1. s1 \in Seq(Events) /\ Range(s1) = Range(s) \cup {e}
    BY <1>3
  <2> HIDE DEF s1
  <2>2. /\ Append(s1, e) \in Seq(Events)
        /\ Range(Append(s1, e)) = Range(s1) \cup {e}
    BY <2>1, AppendRange
  <2> QED BY <2>1, <2>2 DEF s1
<1>5. Append1(t, e) = [log EXCEPT ![t][p] = Append(s, e)]
  BY DEF Append1
<1>6. Append2(t, e) = [log EXCEPT ![t][p] = Append(Append(s, e), e)]
  BY DEF Append2
<1> HIDE DEF p
<1>7. /\ log' \in Logs
      /\ \A u \in Topics : Sent(u) \subseteq Sent(u)'
      /\ \A u \in Topics \ {t} : Sent(u)' = Sent(u)
      /\ Sent(t)' \subseteq Sent(t) \cup {e}
  <2>1. CASE log' = log
    BY <2>1, <1>2, SilentStep
  <2>2. CASE log' = Append1(t, e)
    BY <1>1, <1>2, <1>3, <1>5, <2>2, WriteOne
  <2>3. CASE log' = Append2(t, e)
    BY <1>1, <1>2, <1>4, <1>6, <2>3, WriteOne
  <2> QED BY <2>1, <2>2, <2>3 DEF Acknowledged, Unacknowledged
<1>8. disturbances' \in 0..MaxDisturbances
  BY DisturbStep DEF BusTypeOK, Acknowledged, Unacknowledged
<1> QED BY <1>7, <1>8 DEF BusTypeOK, offsets

\* A consumer is handed an event that was sent on a topic of its group.
LEMMA FetchStep ==
  ASSUME NEW g \in Groups, NEW r, NEW t, NEW p \in Partitions, BusTypeOK, CanFetch(g, r, t, p)
  PROVE  /\ t \in Subscription[g] /\ t \in Topics
         /\ NextEvent(g, t, p) \in Events
         /\ NextEvent(g, t, p) \in Sent(t)
         /\ position[g][t][p] \in Nat
<1>1. t \in Subscription[g] /\ t \in Topics
  BY DEF CanFetch, Subscription, Topics, Groups
<1>2. log[t][p] \in Seq(Events) /\ position[g][t][p] \in Nat
  BY <1>1 DEF BusTypeOK, Logs, Offsets
<1>3. position[g][t][p] + 1 \in DOMAIN log[t][p]
  BY <1>2 DEF CanFetch
<1>4. NextEvent(g, t, p) \in Range(log[t][p]) /\ NextEvent(g, t, p) \in Events
  BY <1>2, <1>3 DEF NextEvent, Range
<1> QED BY <1>1, <1>2, <1>4 DEF Sent

\* Reading on, committing and rejoining keep the offsets well-typed.
LEMMA OffsetSteps ==
  ASSUME NEW g \in Groups, NEW t \in Topics, NEW p \in Partitions, NEW n \in Nat, BusTypeOK
  PROVE  /\ Advance(g, t, p) => position' \in Offsets
         /\ Commit(g, t, p, n) => committed' \in Offsets
<1>1. Advance(g, t, p) => position' \in Offsets
  BY DEF BusTypeOK, Offsets, Advance
<1>2. Commit(g, t, p, n) => committed' \in Offsets
  BY DEF BusTypeOK, Offsets, Commit
<1> QED BY <1>1, <1>2

\* So does a new assignment of a group, after a crash or a rebalance.
LEMMA RejoinStep ==
  ASSUME NEW g \in Groups, NEW kind, BusTypeOK, Disturb(kind), Rejoin(g)
  PROVE  BusTypeOK'
<1>1. disturbances' \in 0..MaxDisturbances
  BY DisturbStep DEF BusTypeOK
<1>2. position' \in Offsets
  BY DEF BusTypeOK, Offsets, Rejoin
<1>3. /\ owner' \in [Groups -> UNION {Assignments[h] : h \in Groups}]
      /\ \A h \in Groups : owner'[h] \in Assignments[h]
  BY DEF BusTypeOK, Rejoin
<1> QED BY <1>1, <1>2, <1>3 DEF BusTypeOK, Rejoin

\* The broker starts well-typed and empty.
LEMMA BusInitially ==
  ASSUME BusInit
  PROVE  BusTypeOK /\ \A u \in Topics : Sent(u) = {}
<1>1. log \in Logs /\ \A u \in Topics, p \in Partitions : log[u][p] = <<>>
  BY DEF BusInit, Logs
<1>2. NoOffsets \in Offsets
  BY DEF NoOffsets, Offsets
<1>3. BusTypeOK
  BY <1>1, <1>2, BusAssumption DEF BusInit, BusTypeOK
<1>4. \A u \in Topics : Sent(u) = {}
  BY <1>1 DEF Sent, Range
<1> QED BY <1>3, <1>4
=============================================================================
