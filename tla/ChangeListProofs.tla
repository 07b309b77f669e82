-------------------------- MODULE ChangeListProofs --------------------------
(***************************************************************************)
(* For any number of changes and of failed calls: no change is lost, and a *)
(* clean list means that the database has every change.  The call under    *)
(* way carries exactly the list in transmission, and an answered one has   *)
(* been stored: with that, each property is kept by every step.            *)
(***************************************************************************)
EXTENDS ChangeList, SequenceTheorems, TLAPS

\* The client's list agrees with its call, and the call with the database.
CallInv ==
    /\ ListConsistent
    /\ rpc # "none" => batch = inTransmission /\ batch # <<>>
    /\ rpc = "done" => Range(batch) \subseteq Range(stored)

\* Each change is somewhere; a list that is clean holds none of them.
HeldInv == NoChangeLost

ListInv == TypeOK /\ CallInv /\ HeldInv

-----------------------------------------------------------------------------
\* Appending to and joining lists adds exactly their elements.
LEMMA RangeAppend ==
    ASSUME NEW S, NEW s \in Seq(S), NEW e \in S
    PROVE  /\ Append(s, e) \in Seq(S)
           /\ Append(s, e) # <<>>
           /\ Range(Append(s, e)) = Range(s) \cup {e}
PROOF
  <1>1. Append(s, e) \in Seq(S) /\ Append(s, e) # <<>>
        /\ Len(Append(s, e)) = Len(s) + 1
        /\ (\A i \in 1..Len(s) : Append(s, e)[i] = s[i])
        /\ Append(s, e)[Len(s) + 1] = e
    BY AppendProperties
  <1>2. Len(s) \in Nat /\ DOMAIN s = 1..Len(s)
        /\ DOMAIN Append(s, e) = 1..(Len(s) + 1)
    BY <1>1, LenProperties
  <1> QED BY <1>1, <1>2 DEF Range

LEMMA RangeConcat ==
    ASSUME NEW S, NEW s \in Seq(S), NEW t \in Seq(S)
    PROVE  /\ s \o t \in Seq(S)
           /\ Range(s \o t) = Range(s) \cup Range(t)
           /\ s # <<>> \/ t # <<>> => s \o t # <<>>
PROOF
  <1>1. /\ s \o t \in Seq(S)
        /\ Len(s \o t) = Len(s) + Len(t)
        /\ \A i \in 1..(Len(s) + Len(t)) :
             (s \o t)[i] = IF i <= Len(s) THEN s[i] ELSE t[i - Len(s)]
    BY ConcatProperties
  <1>2. /\ Len(s) \in Nat /\ DOMAIN s = 1..Len(s)
        /\ Len(t) \in Nat /\ DOMAIN t = 1..Len(t)
        /\ DOMAIN (s \o t) = 1..(Len(s) + Len(t))
    BY <1>1, LenProperties
  <1>3. \A i \in DOMAIN t : Len(s) + i \in DOMAIN (s \o t) /\ (s \o t)[Len(s) + i] = t[i]
    BY <1>1, <1>2
  <1>4. \A i \in DOMAIN s : i \in DOMAIN (s \o t) /\ (s \o t)[i] = s[i]
    BY <1>1, <1>2
  <1>5. \A i \in DOMAIN (s \o t) :
            (i \in DOMAIN s /\ (s \o t)[i] = s[i])
         \/ (i - Len(s) \in DOMAIN t /\ (s \o t)[i] = t[i - Len(s)])
    BY <1>1, <1>2
  <1>6. Range(s) \cup Range(t) \subseteq Range(s \o t)
    BY <1>3, <1>4 DEF Range
  <1>8. ASSUME NEW e \in Range(s \o t)
        PROVE  e \in Range(s) \cup Range(t)
    <2>1. PICK i \in DOMAIN (s \o t) : (s \o t)[i] = e
      BY <1>8 DEF Range
    <2> QED BY <1>5, <2>1 DEF Range
  <1>7. s # <<>> \/ t # <<>> => s \o t # <<>>
    BY <1>1, <1>2, EmptySeq
  <1> QED BY <1>1, <1>6, <1>7, <1>8

LEMMA RangeEmpty == Range(<<>>) = {}
PROOF BY DEF Range

-----------------------------------------------------------------------------
(* Type correctness.                                                       *)

USE DEF listVars, callVars

LEMMA InitType == Init => TypeOK
PROOF
  <1> SUFFICES ASSUME Init PROVE TypeOK
    OBVIOUS
  <1>1. <<>> \in Seq(Changes)
    BY EmptySeq
  <1>2. 0 \in 0..MaxChanges /\ 0 \in 0..MaxFailures
    BY BoundAssumption
  <1> QED BY <1>1, <1>2, Zenon DEF Init, TypeOK

LEMMA NextType == TypeOK /\ [Next]_vars => TypeOK'
PROOF
  <1> SUFFICES ASSUME TypeOK, [Next]_vars PROVE TypeOK'
    OBVIOUS
  <1> USE BoundAssumption
  <1>0. <<>> \in Seq(Changes)
    BY EmptySeq
  <1>1. CASE AddChange
    <2>1. typed' \in 0..MaxChanges /\ typed + 1 \in Changes
      BY <1>1 DEF AddChange, TypeOK, Changes
    <2>2. unsent' \in Seq(Changes)
      BY <1>1, <2>1, RangeAppend, Zenon DEF AddChange, TypeOK
    <2>3. state' \in {"CLEAN", "UNSENT", "TRANSMISSION"}
      BY <1>1 DEF AddChange, TypeOK
    <2> QED BY <1>1, <2>1, <2>2, <2>3, Zenon DEF AddChange, TypeOK
  <1>2. CASE BeginTransmit
    <2>1. inTransmission' \in Seq(Changes)
      BY <1>2, RangeConcat, Zenon DEF BeginTransmit, TypeOK
    <2> QED BY <1>0, <1>2, <2>1 DEF BeginTransmit, TypeOK
  <1>3. CASE LogChange
    <2>1. stored' \in Seq(Changes)
      BY <1>3, RangeConcat, Zenon DEF LogChange, TypeOK
    <2> QED BY <1>3, <2>1 DEF LogChange, TypeOK
  <1>4. CASE Acknowledge
    BY <1>0, <1>4 DEF Acknowledge, EndTransmitSuccess, TypeOK
  <1>5. CASE SessionExpired
    BY <1>5 DEF SessionExpired, TypeOK
  <1>6. CASE Recover
    BY <1>6 DEF Recover, TypeOK
  <1>7. CASE CallFails
    <2>1. unsent' \in Seq(Changes)
      BY <1>7, RangeConcat, Zenon DEF CallFails, EndTransmitFailure, TypeOK
    <2>2. failures' \in 0..MaxFailures /\ failures + 1 \in 1..MaxFailures
      BY <1>7 DEF CallFails, TypeOK
    <2>3. adrift' \subseteq (1..MaxFailures) \X Seq(Changes)
      BY <1>7, <2>2 DEF CallFails, TypeOK
    <2> QED BY <1>0, <1>7, <2>1, <2>2, <2>3 DEF CallFails, EndTransmitFailure, TypeOK
  <1>8. CASE LateLogChange
    <2>1. PICK call \in adrift :
             /\ stored' = stored \o call[2]
             /\ adrift' = adrift \ {call}
             /\ UNCHANGED <<listVars, rpc, batch, failures>>
      BY <1>8 DEF LateLogChange
    <2>2. call[2] \in Seq(Changes)
      BY <2>1 DEF TypeOK
    <2>3. stored' \in Seq(Changes)
      BY <2>1, <2>2, RangeConcat, Zenon DEF TypeOK
    <2> QED BY <2>1, <2>3 DEF TypeOK
  <1>9. CASE UNCHANGED vars
    BY <1>9 DEF vars, TypeOK
  <1> QED BY <1>1, <1>2, <1>3, <1>4, <1>5, <1>6, <1>7, <1>8, <1>9 DEF Next

\* Every variable keeps its type.
THEOREM TypeCorrect == Spec => []TypeOK
PROOF BY InitType, NextType, PTL DEF Spec

-----------------------------------------------------------------------------
(* The list, the call and the database agree.                              *)

LEMMA InitCall == Init => CallInv
PROOF BY DEF Init, CallInv, ListConsistent

LEMMA NextCall == TypeOK /\ CallInv /\ [Next]_vars => CallInv'
PROOF
  <1> SUFFICES ASSUME TypeOK, CallInv, [Next]_vars PROVE CallInv'
    OBVIOUS
  <1>1. CASE AddChange
    <2>1. typed + 1 \in Changes
      BY <1>1, BoundAssumption DEF AddChange, TypeOK, Changes
    <2>2. unsent' # <<>>
      BY <1>1, <2>1, RangeAppend, Zenon DEF AddChange, TypeOK
    <2> QED BY <1>1, <2>2 DEF AddChange, CallInv, ListConsistent, TypeOK
  <1>2. CASE BeginTransmit
    <2>1. inTransmission' # <<>>
      BY <1>2, RangeConcat, Zenon DEF BeginTransmit, TypeOK, CallInv, ListConsistent
    <2> QED BY <1>2, <2>1 DEF BeginTransmit, CallInv, ListConsistent
  <1>3. CASE LogChange
    <2>1. Range(stored') = Range(stored) \cup Range(batch)
      BY <1>3, RangeConcat, Zenon DEF LogChange, TypeOK
    <2> QED BY <1>3, <2>1 DEF LogChange, CallInv, ListConsistent
  <1>4. CASE Acknowledge
    BY <1>4 DEF Acknowledge, EndTransmitSuccess, CallInv, ListConsistent
  <1>5. CASE SessionExpired
    BY <1>5 DEF SessionExpired, CallInv, ListConsistent
  <1>6. CASE Recover
    BY <1>6 DEF Recover, CallInv, ListConsistent
  <1>7. CASE CallFails
    <2>1. inTransmission # <<>>
      BY <1>7 DEF CallFails, CallInv
    <2>2. unsent' # <<>>
      BY <1>7, <2>1, RangeConcat, Zenon DEF CallFails, EndTransmitFailure, TypeOK
    <2> QED BY <1>7, <2>2 DEF CallFails, EndTransmitFailure, CallInv, ListConsistent
  <1>8. CASE LateLogChange
    <2>1. PICK call \in adrift :
             /\ stored' = stored \o call[2]
             /\ UNCHANGED <<listVars, rpc, batch>>
      BY <1>8 DEF LateLogChange
    <2>2. call[2] \in Seq(Changes)
      BY <2>1 DEF TypeOK
    <2>3. Range(stored) \subseteq Range(stored')
      BY <2>1, <2>2, RangeConcat DEF TypeOK
    <2> QED BY <2>1, <2>3 DEF CallInv, ListConsistent
  <1>9. CASE UNCHANGED vars
    BY <1>9 DEF vars, CallInv, ListConsistent
  <1> QED BY <1>1, <1>2, <1>3, <1>4, <1>5, <1>6, <1>7, <1>8, <1>9 DEF Next

\* The list is consistent with the call under way, always.
THEOREM ConsistentAlways == Spec => []ListConsistent
<1>1. CallInv => ListConsistent
  BY DEF CallInv
<1> QED BY <1>1, InitType, NextType, InitCall, NextCall, PTL DEF Spec

-----------------------------------------------------------------------------
(* No change is lost.                                                      *)

\* Where a change may be.
Held == Range(stored) \cup Range(inTransmission) \cup Range(unsent)

LEMMA InitHeld == Init => HeldInv
PROOF BY DEF Init, HeldInv, NoChangeLost

\* What is held stays held, and a change joins when it is made.
LEMMA NextHeld == TypeOK /\ CallInv /\ HeldInv /\ [Next]_vars => HeldInv'
PROOF
  <1> SUFFICES ASSUME TypeOK, CallInv, HeldInv, [Next]_vars PROVE HeldInv'
    OBVIOUS
  <1>0. \A n \in 1..typed : n \in Held
    BY DEF HeldInv, NoChangeLost, Held
  <1>q. ASSUME typed' = typed, Held \subseteq Held' PROVE HeldInv'
    BY <1>0, <1>q DEF HeldInv, NoChangeLost, Held
  <1>1. CASE AddChange
    <2>1. typed + 1 \in Changes
      BY <1>1, BoundAssumption DEF AddChange, TypeOK, Changes
    <2>2. Range(unsent') = Range(unsent) \cup {typed + 1}
      BY <1>1, <2>1, RangeAppend DEF AddChange, TypeOK
    <2>3. \A n \in 1..typed' : n \in 1..typed \/ n = typed + 1
      BY <1>1 DEF AddChange, TypeOK
    <2>4. Held' = Held \cup {typed + 1}
      BY <1>1, <2>2 DEF AddChange, Held
    <2> QED BY <1>0, <2>3, <2>4 DEF HeldInv, NoChangeLost, Held
  <1>2. CASE BeginTransmit
    <2>1. Range(inTransmission') = Range(inTransmission) \cup Range(unsent)
      BY <1>2, RangeConcat, Zenon DEF BeginTransmit, TypeOK
    <2> QED BY <1>2, <1>q, <2>1 DEF BeginTransmit, Held
  <1>3. CASE LogChange
    <2>1. Range(stored') = Range(stored) \cup Range(batch)
      BY <1>3, RangeConcat, Zenon DEF LogChange, TypeOK
    <2> QED BY <1>3, <1>q, <2>1 DEF LogChange, Held
  <1>4. CASE Acknowledge
    <2>1. Range(inTransmission) \subseteq Range(stored)
      BY <1>4 DEF Acknowledge, CallInv
    <2> QED BY <1>4, <1>q, <2>1 DEF Acknowledge, EndTransmitSuccess, Held
  <1>5. CASE SessionExpired
    BY <1>5, <1>q DEF SessionExpired, Held
  <1>6. CASE Recover
    BY <1>6, <1>q DEF Recover, Held
  <1>7. CASE CallFails
    <2>1. Range(unsent') = Range(inTransmission) \cup Range(unsent)
      BY <1>7, RangeConcat DEF CallFails, EndTransmitFailure, TypeOK
    <2> QED BY <1>7, <1>q, <2>1 DEF CallFails, EndTransmitFailure, Held
  <1>8. CASE LateLogChange
    <2>1. PICK call \in adrift :
             /\ stored' = stored \o call[2]
             /\ UNCHANGED listVars
      BY <1>8 DEF LateLogChange
    <2>2. call[2] \in Seq(Changes)
      BY <2>1 DEF TypeOK
    <2>3. Range(stored) \subseteq Range(stored')
      BY <2>1, <2>2, RangeConcat DEF TypeOK
    <2> QED BY <1>q, <2>1, <2>3 DEF Held
  <1>9. CASE UNCHANGED vars
    BY <1>9, <1>q DEF vars, Held
  <1> QED BY <1>1, <1>2, <1>3, <1>4, <1>5, <1>6, <1>7, <1>8, <1>9 DEF Next

LEMMA ListInvAlways == Spec => []ListInv
<1>1. Init => ListInv
  BY InitType, InitCall, InitHeld DEF ListInv
<1>2. ListInv /\ [Next]_vars => ListInv'
  BY NextType, NextCall, NextHeld DEF ListInv
<1> QED BY <1>1, <1>2, PTL DEF Spec

\* Every change the user has made is stored, in transmission or waiting.
THEOREM ChangesKept == Spec => []NoChangeLost
<1>1. ListInv => NoChangeLost
  BY DEF ListInv, HeldInv
<1> QED BY <1>1, ListInvAlways, PTL

\* When the list is clean, nothing is in transmission or waiting: it is stored.
THEOREM CleanListStored == Spec => []CleanMeansStored
<1>1. ListInv => CleanMeansStored
  BY RangeEmpty DEF ListInv, HeldInv, CallInv, ListConsistent, NoChangeLost, CleanMeansStored
<1> QED BY <1>1, ListInvAlways, PTL

-----------------------------------------------------------------------------
(* As long as no call fails, the database receives the changes in order    *)
(* and once: what is stored, followed by what is in transmission and not   *)
(* yet stored, followed by what is waiting, is 1, 2, ..., typed.           *)

Untold == IF rpc = "done" THEN <<>> ELSE inTransmission

OrderInv ==
    failures = 0 =>
        /\ adrift = {}
        /\ transmitSuccess
        /\ stored \o (Untold \o unsent) = Numbered(typed)

LEMMA NumberedProperties ==
    ASSUME NEW n \in Nat
    PROVE  /\ Numbered(n) \in Seq(Nat)
           /\ Len(Numbered(n)) = n
           /\ \A i \in 1..n : Numbered(n)[i] = i
PROOF
  <1>1. Numbered(n) \in [1..n -> Nat]
    BY DEF Numbered
  <1>2. Numbered(n) \in Seq(Nat)
    BY <1>1, SeqDef
  <1>3. Len(Numbered(n)) = n
    BY <1>1, <1>2, LenProperties
  <1> QED BY <1>2, <1>3 DEF Numbered

LEMMA NumberedNext ==
    ASSUME NEW n \in Nat
    PROVE  Append(Numbered(n), n + 1) = Numbered(n + 1)
PROOF
  <1>1. /\ Append(Numbered(n), n + 1) \in Seq(Nat)
        /\ Len(Append(Numbered(n), n + 1)) = n + 1
        /\ \A i \in 1..n : Append(Numbered(n), n + 1)[i] = i
        /\ Append(Numbered(n), n + 1)[n + 1] = n + 1
    BY NumberedProperties, AppendProperties
  <1>2. /\ Numbered(n + 1) \in Seq(Nat)
        /\ Len(Numbered(n + 1)) = n + 1
        /\ \A i \in 1..(n + 1) : Numbered(n + 1)[i] = i
    BY NumberedProperties
  <1>3. \A i \in 1..(n + 1) : Append(Numbered(n), n + 1)[i] = Numbered(n + 1)[i]
    BY <1>1, <1>2
  <1> QED BY <1>1, <1>2, <1>3, SeqEqual

LEMMA ConcatAppend ==
    ASSUME NEW S, NEW s \in Seq(S), NEW t \in Seq(S), NEW e \in S
    PROVE  s \o Append(t, e) = Append(s \o t, e)
PROOF
  <1> DEFINE l == s \o Append(t, e)
             r == Append(s \o t, e)
             n == Len(s) + Len(t) + 1
  <1>1. /\ Len(s) \in Nat /\ Len(t) \in Nat
        /\ Append(t, e) \in Seq(S) /\ Len(Append(t, e)) = Len(t) + 1
        /\ \A i \in 1..Len(t) : Append(t, e)[i] = t[i]
        /\ Append(t, e)[Len(t) + 1] = e
    BY AppendProperties, LenProperties
  <1>2. /\ l \in Seq(S) /\ Len(l) = n
        /\ \A i \in 1..n : l[i] = IF i <= Len(s) THEN s[i] ELSE Append(t, e)[i - Len(s)]
    BY <1>1, ConcatProperties
  <1>3. /\ s \o t \in Seq(S) /\ Len(s \o t) = Len(s) + Len(t)
        /\ \A i \in 1..(Len(s) + Len(t)) :
              (s \o t)[i] = IF i <= Len(s) THEN s[i] ELSE t[i - Len(s)]
    BY ConcatProperties
  <1>4. /\ r \in Seq(S) /\ Len(r) = n
        /\ \A i \in 1..(Len(s) + Len(t)) : r[i] = (s \o t)[i]
        /\ r[n] = e
    BY <1>1, <1>3, AppendProperties
  <1>5. ASSUME NEW i \in 1..n PROVE l[i] = r[i]
    <2>1. CASE i = n
      BY <1>1, <1>2, <1>4, <2>1
    <2>2. CASE i <= Len(s)
      BY <1>1, <1>2, <1>3, <1>4, <2>2
    <2>3. CASE i > Len(s) /\ i < n
      <3>1. i - Len(s) \in 1..Len(t)
        BY <1>1, <2>3
      <3> QED BY <1>1, <1>2, <1>3, <1>4, <2>3, <3>1
    <2> QED BY <1>1, <2>1, <2>2, <2>3
  <1> HIDE DEF l, r, n
  <1>6. l = r
    BY <1>1, <1>2, <1>4, <1>5, SeqEqual
  <1> QED BY <1>6 DEF l, r

LEMMA ConcatIsPrefix ==
    ASSUME NEW S, NEW s \in Seq(S), NEW t \in Seq(S)
    PROVE  IsPrefix(s, s \o t)
PROOF
  <1>1. /\ Len(s) \in Nat /\ Len(t) \in Nat
        /\ s \o t \in Seq(S) /\ Len(s \o t) = Len(s) + Len(t)
        /\ \A i \in 1..Len(s) : (s \o t)[i] = s[i]
    BY ConcatProperties, LenProperties
  <1>2. /\ \A i \in 1..Len(s) : s[i] \in S
        /\ \A i \in 1..Len(s) : (s \o t)[i] \in S
    BY <1>1, ElementOfSeq
  <1>3. /\ SubSeq(s, 1, Len(s)) \in Seq(S)
        /\ Len(SubSeq(s, 1, Len(s))) = Len(s)
        /\ \A i \in 1..Len(s) : SubSeq(s, 1, Len(s))[i] = s[i]
    BY <1>1, <1>2, SubSeqProperties
  <1>4. /\ SubSeq(s \o t, 1, Len(s)) \in Seq(S)
        /\ Len(SubSeq(s \o t, 1, Len(s))) = Len(s)
        /\ \A i \in 1..Len(s) : SubSeq(s \o t, 1, Len(s))[i] = s[i]
    BY <1>1, <1>2, SubSeqProperties
  <1>5. SubSeq(s, 1, Len(s)) = SubSeq(s \o t, 1, Len(s))
    BY <1>3, <1>4, SeqEqual
  <1> QED BY <1>1, <1>5 DEF IsPrefix

LEMMA InitOrder == Init => OrderInv
PROOF
  <1> SUFFICES ASSUME Init PROVE OrderInv
    OBVIOUS
  <1>1. stored = <<>> /\ Untold = <<>> /\ unsent = <<>> /\ typed = 0
    BY DEF Init, Untold
  <1>2. <<>> \o (<<>> \o <<>>) = <<>>
    BY EmptySeq, ConcatEmptySeq
  <1>3. Numbered(0) = <<>>
    BY NumberedProperties, EmptySeq
  <1> QED BY <1>1, <1>2, <1>3 DEF Init, OrderInv

LEMMA NextOrder == TypeOK /\ CallInv /\ OrderInv /\ [Next]_vars => OrderInv'
PROOF
  <1> SUFFICES ASSUME TypeOK, CallInv, OrderInv, [Next]_vars, failures' = 0
               PROVE  /\ adrift' = {}
                      /\ transmitSuccess'
                      /\ stored' \o (Untold' \o unsent') = Numbered(typed')
    BY DEF OrderInv
  <1>0. /\ stored \in Seq(Changes) /\ unsent \in Seq(Changes) /\ batch \in Seq(Changes)
        /\ inTransmission \in Seq(Changes) /\ Untold \in Seq(Changes)
        /\ <<>> \in Seq(Changes)
    BY EmptySeq DEF TypeOK, Untold
  <1>q. ASSUME failures = 0, UNCHANGED <<stored, Untold, unsent, typed>>
        PROVE  stored' \o (Untold' \o unsent') = Numbered(typed')
    BY <1>q DEF OrderInv
  <1>1. CASE AddChange
    <2>1. typed \in Nat /\ typed + 1 \in Changes /\ typed' = typed + 1
      BY <1>1, BoundAssumption DEF AddChange, TypeOK, Changes
    <2>2. failures = 0 /\ UNCHANGED <<adrift, transmitSuccess, stored, Untold>>
      BY <1>1 DEF AddChange, Untold
    <2>3. stored \o (Untold \o unsent) = Numbered(typed)
      BY <2>2 DEF OrderInv
    <2>4. unsent' = Append(unsent, typed + 1)
      BY <1>1 DEF AddChange
    <2>5. Untold \o unsent' = Append(Untold \o unsent, typed + 1) /\ Untold \o unsent \in Seq(Changes)
      BY <1>0, <2>1, <2>4, ConcatAppend, ConcatProperties
    <2>6. stored \o (Untold \o unsent') = Append(Numbered(typed), typed + 1)
      <3>1. stored \o Append(Untold \o unsent, typed + 1)
              = Append(stored \o (Untold \o unsent), typed + 1)
        <4>1. \A s, t \in Seq(Changes), e \in Changes : s \o Append(t, e) = Append(s \o t, e)
          BY ConcatAppend
        <4> QED BY <1>0, <2>1, <2>5, <4>1, Zenon
      <3> QED BY <2>3, <2>5, <3>1, Zenon
    <2> QED BY <2>1, <2>2, <2>6, NumberedNext DEF OrderInv
  <1>2. CASE BeginTransmit
    <2>1. failures = 0 /\ rpc' = "sent" /\ rpc = "none" /\ inTransmission = <<>>
          /\ UNCHANGED <<adrift, transmitSuccess, stored, typed>>
      BY <1>2 DEF BeginTransmit, CallInv, ListConsistent, OrderInv, TypeOK
    <2>2. Untold = <<>> /\ Untold' = inTransmission \o unsent /\ unsent' = <<>>
      BY <1>2, <2>1 DEF BeginTransmit, Untold
    <2>3. inTransmission \o unsent = unsent /\ <<>> \o unsent = unsent
          /\ unsent \o <<>> = unsent
      BY <1>0, <2>1, ConcatEmptySeq
    <2>4. stored \o (<<>> \o unsent) = Numbered(typed)
      BY <2>1, <2>2 DEF OrderInv
    <2>5. stored' \o (Untold' \o unsent') = stored \o unsent
      BY <2>1, <2>2, <2>3
    <2> QED BY <2>1, <2>3, <2>4, <2>5 DEF OrderInv
  <1>3. CASE LogChange
    <2>1. failures = 0 /\ UNCHANGED <<adrift, transmitSuccess, unsent, typed>>
          /\ stored' = stored \o batch /\ Untold' = <<>> /\ Untold = batch
      BY <1>3 DEF LogChange, Untold, CallInv
    <2>2. stored \o (batch \o unsent) = Numbered(typed)
      BY <2>1 DEF OrderInv
    <2>3. (stored \o batch) \o unsent = stored \o (batch \o unsent)
      <3>1. \A s, t, u \in Seq(Changes) : (s \o t) \o u = s \o (t \o u)
        BY ConcatAssociative
      <3> QED BY <1>0, <3>1, Zenon
    <2>4. <<>> \o unsent = unsent
      BY <1>0, ConcatEmptySeq
    <2> QED BY <2>1, <2>2, <2>3, <2>4 DEF OrderInv
  <1>4. CASE Acknowledge
    <2>1. UNCHANGED <<stored, unsent, typed, adrift, failures>> /\ transmitSuccess'
          /\ Untold = <<>> /\ Untold' = <<>>
      BY <1>4 DEF Acknowledge, EndTransmitSuccess, Untold
    <2> QED BY <1>q, <2>1 DEF OrderInv
  <1>5. CASE SessionExpired
    <2>1. UNCHANGED <<stored, Untold, unsent, typed, adrift, failures, transmitSuccess>>
      BY <1>5 DEF SessionExpired, Untold
    <2> QED BY <1>q, <2>1 DEF OrderInv
  <1>6. CASE Recover
    <2>1. UNCHANGED <<stored, Untold, unsent, typed, adrift, failures, transmitSuccess>>
      BY <1>6 DEF Recover, Untold
    <2> QED BY <1>q, <2>1 DEF OrderInv
  <1>7. CASE CallFails
    BY <1>7 DEF CallFails, TypeOK
  <1>8. CASE LateLogChange
    BY <1>8 DEF LateLogChange, OrderInv
  <1>9. CASE UNCHANGED vars
    <2>1. UNCHANGED <<stored, Untold, unsent, typed, adrift, failures, transmitSuccess>>
      BY <1>9 DEF vars, Untold
    <2> QED BY <1>q, <2>1 DEF OrderInv
  <1> QED BY <1>1, <1>2, <1>3, <1>4, <1>5, <1>6, <1>7, <1>8, <1>9 DEF Next

\* Without failures the database has a prefix of the user's changes, in order.
THEOREM StoredInOrder == Spec => []InOrderUntilFailure
<1>1. TypeOK /\ OrderInv => InOrderUntilFailure
  <2> SUFFICES ASSUME TypeOK, OrderInv, failures = 0 PROVE IsPrefix(stored, Numbered(typed))
    BY DEF InOrderUntilFailure
  <2>1. stored \in Seq(Changes) /\ unsent \in Seq(Changes) /\ Untold \in Seq(Changes)
    BY EmptySeq DEF TypeOK, Untold
  <2>2. Untold \o unsent \in Seq(Changes)
    BY <2>1, ConcatProperties
  <2>3. stored \o (Untold \o unsent) = Numbered(typed)
    BY DEF OrderInv
  <2> HIDE DEF Untold
  <2> QED BY <2>1, <2>2, <2>3, ConcatIsPrefix
<1> QED BY <1>1, InitType, NextType, InitCall, NextCall, InitOrder, NextOrder, PTL DEF Spec
=============================================================================
