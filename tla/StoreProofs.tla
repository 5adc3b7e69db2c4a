------------------------------ MODULE StoreProofs ------------------------------
(***************************************************************************)
(* Proofs about the state store, for every set of updates and accounts and  *)
(* every number of failed writes and restarts: what a caller was told of    *)
(* its update is what the state file holds, now and after a restart.        *)
(***************************************************************************)
EXTENDS StateStore, SequenceTheorems, TLAPS

----------------------------------------------------------------------------
(* The inductive invariant.                                                 *)

\* An update is in one place: it waits, it is in the file, or it was rejected.
UpdatesApart ==
    /\ IsInjective(queue) /\ IsInjective(file.applied)
    /\ ToSet(queue) \cap (rejected \cup ToSet(file.applied)) = {}
    /\ rejected \cap ToSet(file.applied) = {}
    /\ resolved \subseteq ToSet(file.applied)

\* How the state that readers see differs from the file: by the running update
\* past its mutation, or for good by the one whose write failed.
Ahead ==
    /\ broken => queue = <<>> /\ ~writing
    /\ writing => queue # <<>> /\ state.applied = Append(file.applied, Head(queue))
    /\ ~writing => \/ state = file
                   \/ broken /\ \E u \in Updates : state.applied = Append(file.applied, u)

\* Of every account a state holds what the account's updates left of it.
Remembers(s) == \A a \in Accounts : s.touched[a] = Since(s.applied, a)

StoreInv ==
    /\ TypeOK /\ Len(file.events) <= MAX_EVENTS
    /\ UpdatesApart /\ Ahead
    /\ Remembers(state) /\ Remembers(file)

----------------------------------------------------------------------------
(* Sequences without repetitions.                                           *)

LEMMA AppendApart ==
    ASSUME NEW S, NEW s \in Seq(S), NEW u \in S, IsInjective(s), u \notin ToSet(s)
    PROVE  /\ ToSet(Append(s, u)) = ToSet(s) \cup {u}
           /\ IsInjective(Append(s, u))
<1> DEFINE t == Append(s, u)
<1>1. /\ t \in Seq(S) /\ Len(t) = Len(s) + 1 /\ Len(s) \in Nat
      /\ \A i \in 1..Len(s) : t[i] = s[i]
      /\ t[Len(s) + 1] = u
      /\ DOMAIN s = 1..Len(s)
    BY AppendProperties, LenProperties
<1>2. DOMAIN t = 1..(Len(s) + 1)
    BY <1>1, LenProperties
<1> HIDE DEF t
<1>3. \A i \in 1..(Len(s) + 1) : i \in 1..Len(s) \/ i = Len(s) + 1
    BY <1>1
<1>4. 1..Len(s) \subseteq 1..(Len(s) + 1) /\ Len(s) + 1 \in 1..(Len(s) + 1)
    BY <1>1
<1>5. ToSet(t) = ToSet(s) \cup {u}
    BY <1>1, <1>2, <1>3, <1>4 DEF ToSet
<1>6. \A i \in 1..Len(s) : s[i] # u
    BY <1>1 DEF ToSet
<1>7. IsInjective(t)
  <2>1. SUFFICES ASSUME NEW i \in 1..(Len(s) + 1), NEW j \in 1..(Len(s) + 1), t[i] = t[j]
                 PROVE  i = j
    BY <1>2 DEF IsInjective
  <2>2. CASE i \in 1..Len(s) /\ j \in 1..Len(s)
    BY <1>1, <2>1, <2>2 DEF IsInjective
  <2>3. CASE i = Len(s) + 1 \/ j = Len(s) + 1
    BY <1>1, <1>3, <1>6, <2>1, <2>3
  <2> QED BY <1>3, <2>2, <2>3
<1> QED BY <1>5, <1>7 DEF t

LEMMA TailApart ==
    ASSUME NEW S, NEW s \in Seq(S), s # <<>>, IsInjective(s)
    PROVE  /\ Head(s) \in S /\ Tail(s) \in Seq(S)
           /\ ToSet(s) = ToSet(Tail(s)) \cup {Head(s)}
           /\ Head(s) \notin ToSet(Tail(s))
           /\ IsInjective(Tail(s))
<1> DEFINE t == Tail(s)
<1>1. /\ Head(s) \in S /\ t \in Seq(S) /\ Len(t) = Len(s) - 1
      /\ \A i \in 1..Len(t) : t[i] = s[i + 1]
      /\ Head(s) = s[1]
    BY HeadTailProperties
<1>2. Len(s) \in Nat /\ Len(s) >= 1 /\ DOMAIN s = 1..Len(s)
    BY EmptySeq, LenProperties
<1>3. DOMAIN t = 1..(Len(s) - 1)
    BY <1>1, LenProperties
<1> HIDE DEF t
<1>4. \A i \in 1..(Len(s) - 1) : t[i] = s[i + 1] /\ i + 1 \in 1..Len(s) /\ i + 1 # 1
    BY <1>1, <1>2
<1>5. \A i \in 1..Len(s) : i = 1 \/ (i - 1 \in 1..(Len(s) - 1) /\ s[i] = t[i - 1])
  <2>1. TAKE i \in 1..Len(s)
  <2>2. CASE i # 1
    <3>1. i - 1 \in 1..(Len(s) - 1) /\ (i - 1) + 1 = i
        BY <1>2, <2>2
    <3> QED BY <1>4, <3>1
  <2> QED BY <2>2
<1>6. 1 \in 1..Len(s)
    BY <1>2
<1>7. ToSet(s) = ToSet(t) \cup {Head(s)}
  <2>1. ToSet(s) \subseteq ToSet(t) \cup {Head(s)}
    <3>1. SUFFICES ASSUME NEW i \in 1..Len(s) PROVE s[i] \in ToSet(t) \cup {Head(s)}
        BY <1>2 DEF ToSet
    <3>2. CASE i # 1
        BY <1>3, <1>5, <3>2 DEF ToSet
    <3> QED BY <1>1, <3>2
  <2>2. ToSet(t) \subseteq ToSet(s)
    BY <1>2, <1>3, <1>4 DEF ToSet
  <2>3. Head(s) \in ToSet(s)
    BY <1>1, <1>2, <1>6 DEF ToSet
  <2> QED BY <2>1, <2>2, <2>3
<1>8. Head(s) \notin ToSet(t)
    BY <1>1, <1>2, <1>3, <1>4, <1>6 DEF ToSet, IsInjective
<1>9. IsInjective(t)
  <2>1. SUFFICES ASSUME NEW i \in 1..(Len(s) - 1), NEW j \in 1..(Len(s) - 1), t[i] = t[j]
                 PROVE  i = j
    BY <1>3 DEF IsInjective
  <2>2. i + 1 = j + 1
    BY <1>2, <1>4, <2>1 DEF IsInjective
  <2> QED BY <1>2, <2>2
<1> QED BY <1>1, <1>7, <1>8, <1>9 DEF t

LEMMA EmptyApart == IsInjective(<<>>) /\ ToSet(<<>>) = {}
BY DEF IsInjective, ToSet

LEMMA AppendPrefix ==
    ASSUME NEW S, NEW s \in Seq(S), NEW u \in S
    PROVE  /\ IsPrefix(s, s) /\ IsPrefix(s, Append(s, u))
           /\ Len(Append(s, u)) = Len(s) + 1 /\ Len(s) \in Nat
<1> DEFINE t == Append(s, u)
<1>1. t \in Seq(S) /\ Len(t) = Len(s) + 1 /\ \A i \in 1..Len(s) : t[i] = s[i]
    BY AppendProperties
<1>2. Len(s) \in Nat
    BY LenProperties
<1> HIDE DEF t
<1>3. \A i \in 1..Len(s) : s[i] \in S /\ t[i] \in S
    BY <1>1, ElementOfSeq
<1>4. /\ SubSeq(s, 1, Len(s)) = s
      /\ SubSeq(t, 1, Len(s)) \in Seq(S)
    BY <1>2, <1>3, SubSeqFull, SubSeqProperties
<1>5. /\ Len(SubSeq(t, 1, Len(s))) = Len(s)
      /\ \A i \in 1..Len(s) : SubSeq(t, 1, Len(s))[i] = t[i]
  <2>1. /\ Len(SubSeq(t, 1, Len(s))) = IF 1 <= Len(s) THEN Len(s) - 1 + 1 ELSE 0
        /\ \A i \in 1..Len(s) - 1 + 1 : SubSeq(t, 1, Len(s))[i] = t[1 + i - 1]
    BY <1>2, <1>3, SubSeqProperties
  <2>2. /\ Len(s) - 1 + 1 = Len(s) /\ (~(1 <= Len(s)) => Len(s) = 0)
        /\ \A i \in 1..Len(s) : 1 + i - 1 = i
    BY <1>2
  <2> QED BY <2>1, <2>2
<1>6. SubSeq(t, 1, Len(s)) = s
    BY <1>1, <1>4, <1>5, SeqEqual
<1> QED BY <1>1, <1>2, <1>4, <1>6 DEF IsPrefix, t

----------------------------------------------------------------------------
(* What an update leaves of an account.                                     *)

\* A configuration that leaves the account out forgets every update before it,
\* one of the account's own updates is added, and the others change nothing.
LEMMA SinceAppend ==
    ASSUME NEW done \in Seq(Updates), NEW u \in Updates, NEW a \in Accounts,
           StoreParameters
    PROVE  Since(Append(done, u), a) =
              IF Call[u].name = "ensure" /\ a \notin Call[u].accounts THEN {}
              ELSE IF Call[u] = [name |-> "account", key |-> a] THEN Since(done, a) \cup {u}
              ELSE Since(done, a)
<1> DEFINE t == Append(done, u)
           n == Len(done)
           Missing(s) == {i \in DOMAIN s : /\ Call[s[i]].name = "ensure"
                                           /\ a \notin Call[s[i]].accounts}
           Own(s) == {i \in DOMAIN s : Call[s[i]] = [name |-> "account", key |-> a]}
           Latest(s) == {j \in Own(s) : \A k \in Missing(s) : k < j}
<1>1. /\ n \in Nat /\ DOMAIN done = 1..n
      /\ \A i \in 1..n : t[i] = done[i]
      /\ t[n + 1] = u
    BY AppendProperties, LenProperties
<1>2. DOMAIN t = 1..(n + 1)
  <2>1. t \in Seq(Updates) /\ Len(t) = n + 1
    BY AppendProperties
  <2> QED BY <2>1, LenProperties
<1>3. Since(t, a) = {t[i] : i \in Latest(t)} /\ Since(done, a) = {done[i] : i \in Latest(done)}
    BY DEF Since
<1> HIDE DEF t, n
<1>4. /\ \A i \in 1..(n + 1) : i \in 1..n \/ i = n + 1
      /\ \A i \in 1..n : i < n + 1 /\ i \in 1..(n + 1) /\ i # n + 1 /\ ~(n + 1 < i)
      /\ n + 1 \in 1..(n + 1) /\ ~(n + 1 < n + 1) /\ n + 1 \notin 1..n
    BY <1>1
<1>5. /\ \A i \in 1..n : i \in Missing(t) <=> i \in Missing(done)
      /\ \A i \in 1..n : i \in Own(t) <=> i \in Own(done)
      /\ n + 1 \in Missing(t) <=> Call[u].name = "ensure" /\ a \notin Call[u].accounts
      /\ n + 1 \in Own(t) <=> Call[u] = [name |-> "account", key |-> a]
      /\ Missing(t) \subseteq 1..(n + 1) /\ Own(t) \subseteq 1..(n + 1)
      /\ Missing(done) \subseteq 1..n /\ Own(done) \subseteq 1..n
    BY <1>1, <1>2, <1>4
<1> HIDE DEF Missing, Own
<1>6. CASE Call[u].name = "ensure" /\ a \notin Call[u].accounts
  <2>1. Latest(t) = {}
    BY <1>4, <1>5, <1>6
  <2> QED BY <1>3, <1>6, <2>1 DEF t
<1>7. CASE Call[u] = [name |-> "account", key |-> a]
  <2>1. Call[u].name # "ensure" /\ n + 1 \notin Missing(t)
    BY <1>5, <1>7
  <2>2. Missing(t) = Missing(done)
    BY <1>4, <1>5, <2>1
  <2>3. n + 1 \in Latest(t)
    BY <1>4, <1>5, <1>7, <2>2
  <2>4. Latest(t) = Latest(done) \cup {n + 1}
    BY <1>4, <1>5, <2>2, <2>3
  <2>5. Latest(done) \subseteq 1..n
    BY <1>5
  <2>6. {t[i] : i \in Latest(t)} = {done[i] : i \in Latest(done)} \cup {u}
    BY <1>1, <2>4, <2>5
  <2> QED BY <1>3, <1>7, <2>1, <2>6 DEF t
<1>8. CASE /\ ~(Call[u].name = "ensure" /\ a \notin Call[u].accounts)
           /\ Call[u] # [name |-> "account", key |-> a]
  <2>1. Missing(t) = Missing(done) /\ Own(t) = Own(done)
    BY <1>4, <1>5, <1>8
  <2>2. Latest(t) = Latest(done) /\ Latest(done) \subseteq 1..n
    BY <1>5, <2>1
  <2>3. {t[i] : i \in Latest(t)} = {done[i] : i \in Latest(done)}
    BY <1>1, <2>2
  <2> QED BY <1>3, <1>8, <2>3 DEF t
<1> QED BY <1>6, <1>7, <1>8 DEF t

\* What the mutation of an update makes of the state that readers see.
LEMMA MutatedKept ==
    ASSUME StoreParameters, TypeOK, Remembers(state), NEW u \in Updates, ~Throws(u)
    PROVE  /\ Mutated(u) \in State /\ Len(Mutated(u).events) <= MAX_EVENTS
           /\ Mutated(u).applied = Append(state.applied, u)
           /\ Remembers(Mutated(u))
<1> DEFINE m == Mutated(u)
           events == <<u>> \o state.events
<1>1. /\ state.applied \in Seq(Updates) /\ state.accounts \in SUBSET Accounts
      /\ state.touched \in [Accounts -> SUBSET Updates] /\ state.events \in Seq(Updates)
      /\ state = [applied |-> state.applied, accounts |-> state.accounts,
                  touched |-> state.touched, events |-> state.events]
      /\ Len(state.events) <= MAX_EVENTS
    BY DEF TypeOK, State
<1>2. Append(state.applied, u) \in Seq(Updates)
    BY <1>1, AppendProperties
<1>3. Cut(events) \in Seq(Updates) /\ Len(Cut(events)) <= MAX_EVENTS
  <2>1. <<u>> \in Seq(Updates)
    OBVIOUS
  <2>2. events \in Seq(Updates)
    BY <1>1, <2>1, ConcatProperties
  <2> DEFINE k == IF Len(events) > MAX_EVENTS THEN MAX_EVENTS ELSE Len(events)
  <2> HIDE DEF events
  <2>3. k \in 0..Len(events) /\ k <= MAX_EVENTS /\ Len(events) \in Nat
    BY <2>2, LenProperties DEF StoreParameters
  <2>4. Cut(events) = SubSeq(events, 1, k)
    BY DEF Cut
  <2> HIDE DEF k
  <2>5. \A i \in 1..k : events[i] \in Updates
    BY <2>2, <2>3, ElementOfSeq
  <2>6. /\ SubSeq(events, 1, k) \in Seq(Updates)
        /\ Len(SubSeq(events, 1, k)) = IF 1 <= k THEN k - 1 + 1 ELSE 0
    BY <2>3, <2>5, SubSeqProperties
  <2> QED BY <2>3, <2>4, <2>6 DEF StoreParameters
<1> HIDE DEF events
<1>4. CASE Call[u].name = "event"
  <2>1. m = [applied |-> Append(state.applied, u), accounts |-> state.accounts,
             touched |-> state.touched, events |-> Cut(events)]
    BY <1>1, <1>4 DEF Mutated, events
  <2> HIDE DEF m
  <2>2. \A a \in Accounts : Since(Append(state.applied, u), a) = Since(state.applied, a)
    <3>1. ASSUME NEW a \in Accounts PROVE Call[u] # [name |-> "account", key |-> a]
        BY <1>4
    <3> QED BY <1>1, <1>4, <3>1, SinceAppend
  <2>3. Remembers(m)
    BY <2>1, <2>2 DEF Remembers
  <2> QED BY <1>1, <1>2, <1>3, <2>1, <2>3 DEF State, m
<1>5. CASE Call[u].name = "account"
  <2>1. Call[u].key \in Accounts /\ Call[u] = [name |-> "account", key |-> Call[u].key]
    BY <1>5 DEF StoreParameters
  <2>2. m = [applied |-> Append(state.applied, u), accounts |-> state.accounts,
             touched |-> [state.touched EXCEPT ![Call[u].key] = @ \cup {u}],
             events |-> state.events]
    BY <1>1, <1>5 DEF Mutated
  <2> HIDE DEF m
  <2>3. m.touched \in [Accounts -> SUBSET Updates]
    BY <1>1, <2>1, <2>2
  <2>4. ASSUME NEW a \in Accounts
        PROVE  m.touched[a] = Since(Append(state.applied, u), a)
    <3>1. state.touched[a] = Since(state.applied, a)
        BY DEF Remembers
    <3>2. CASE a = Call[u].key
        <4>1. Since(Append(state.applied, u), a) = Since(state.applied, a) \cup {u}
            BY <1>1, <1>5, <2>1, <3>2, SinceAppend
        <4> QED BY <1>1, <2>2, <3>1, <3>2, <4>1
    <3>3. CASE a # Call[u].key
        <4>1. Call[u] # [name |-> "account", key |-> a]
            BY <2>1, <3>3
        <4>2. Since(Append(state.applied, u), a) = Since(state.applied, a)
            BY <1>1, <1>5, <4>1, SinceAppend
        <4> QED BY <1>1, <2>2, <3>1, <3>3, <4>2
    <3> QED BY <3>2, <3>3
  <2>5. Remembers(m)
    BY <2>2, <2>4 DEF Remembers
  <2>6. m \in State /\ Len(m.events) <= MAX_EVENTS /\ m.applied = Append(state.applied, u)
    BY <1>1, <1>2, <2>2, <2>3 DEF State
  <2> QED BY <2>5, <2>6 DEF m
<1>6. CASE Call[u].name # "event" /\ Call[u].name # "account"
  <2>1. Call[u].name = "ensure" /\ Call[u].accounts \in SUBSET Accounts
    BY <1>6 DEF StoreParameters
  <2>2. m = [applied |-> Append(state.applied, u), accounts |-> Call[u].accounts,
             touched |-> [a \in Accounts |-> IF a \in Call[u].accounts
                                             THEN state.touched[a] ELSE {}],
             events |-> state.events]
    BY <1>1, <1>6 DEF Mutated, Ensure
  <2> HIDE DEF m
  <2>3. m.touched \in [Accounts -> SUBSET Updates]
    BY <1>1, <2>2
  <2>4. ASSUME NEW a \in Accounts
        PROVE  m.touched[a] = Since(Append(state.applied, u), a)
    <3>1. state.touched[a] = Since(state.applied, a)
        BY DEF Remembers
    <3>2. Call[u] # [name |-> "account", key |-> a]
        BY <1>6
    <3>3. Since(Append(state.applied, u), a) =
              IF a \notin Call[u].accounts THEN {} ELSE Since(state.applied, a)
        BY <1>1, <2>1, <3>2, SinceAppend
    <3> QED BY <2>2, <3>1, <3>3
  <2>5. Remembers(m)
    BY <2>2, <2>4 DEF Remembers
  <2>6. m \in State /\ Len(m.events) <= MAX_EVENTS /\ m.applied = Append(state.applied, u)
    BY <1>1, <1>2, <2>1, <2>2, <2>3 DEF State
  <2> QED BY <2>5, <2>6 DEF m
<1> QED BY <1>4, <1>5, <1>6

----------------------------------------------------------------------------
(* The steps of the queue.                                                  *)

\* The first update of the queue, and what is left without it.
LEMMA First ==
    ASSUME StoreInv, queue # <<>>
    PROVE  /\ Head(queue) \in Updates /\ Tail(queue) \in Seq(Updates)
           /\ ToSet(queue) = ToSet(Tail(queue)) \cup {Head(queue)}
           /\ Head(queue) \notin ToSet(Tail(queue))
           /\ IsInjective(Tail(queue))
BY TailApart DEF StoreInv, TypeOK, UpdatesApart

LEMMA UpdateCalledKept == ASSUME StoreInv, NEW u \in Updates, UpdateCalled(u) PROVE StoreInv'
<1>1. /\ u \notin rejected \cup ToSet(queue) \cup ToSet(file.applied)
      /\ UNCHANGED <<state, file, writing, broken, resolved, failures, crashes>>
    BY DEF UpdateCalled
<1>2. /\ state \in State /\ file \in State /\ Len(state.events) <= MAX_EVENTS
      /\ queue \in Seq(Updates) /\ rejected \subseteq Updates
    BY DEF StoreInv, TypeOK
<1>3. Remembers(state)' /\ Remembers(file)' /\ Len(file'.events) <= MAX_EVENTS
    BY <1>1 DEF StoreInv, Remembers
<1>4. CASE broken
  <2>1. rejected' = rejected \cup {u} /\ queue' = queue
    BY <1>4 DEF UpdateCalled
  <2>2. TypeOK'
    BY <1>1, <2>1 DEF StoreInv, TypeOK
  <2>3. queue = <<>> /\ ~writing /\ ToSet(queue) = {}
    BY <1>4, EmptyApart DEF StoreInv, Ahead
  <2>4. UpdatesApart'
    BY <1>1, <2>1, <2>3 DEF StoreInv, UpdatesApart
  <2>5. Ahead'
    BY <1>1, <2>1 DEF StoreInv, Ahead
  <2> QED BY <1>3, <2>2, <2>4, <2>5 DEF StoreInv
<1>5. CASE ~broken
  <2>1. queue' = Append(queue, u) /\ rejected' = rejected
    BY <1>5 DEF UpdateCalled
  <2>2. queue' \in Seq(Updates) /\ queue' # <<>>
    BY <1>2, <2>1, AppendProperties
  <2>3. TypeOK'
    BY <1>1, <2>1, <2>2 DEF StoreInv, TypeOK
  <2>4. ToSet(queue') = ToSet(queue) \cup {u} /\ IsInjective(queue')
    BY <1>1, <1>2, <2>1, AppendApart DEF StoreInv, UpdatesApart
  <2>5. UpdatesApart'
    BY <1>1, <2>1, <2>4 DEF StoreInv, UpdatesApart
  <2>6. writing => Head(queue') = Head(queue)
    BY <1>2, <2>1, HeadTailAppend DEF StoreInv, Ahead
  <2>7. Ahead'
    BY <1>1, <1>5, <2>2, <2>6 DEF StoreInv, Ahead
  <2> QED BY <1>3, <2>3, <2>5, <2>7 DEF StoreInv
<1> QED BY <1>4, <1>5

\* The rejection of the running update and of every update behind it, which
\* leaves a state ahead of the file by an update that waited, or by none.
LEMMA RejectKept ==
    ASSUME StoreInv, Reject, queue # <<>>, UNCHANGED state,
           failures' \in 0..MaxFailures
    PROVE  StoreInv'
<1>1. /\ broken' = TRUE /\ rejected' = rejected \cup ToSet(queue) /\ queue' = <<>>
      /\ writing' = FALSE /\ UNCHANGED <<state, file, resolved, crashes>>
    BY DEF Reject, Rejects
<1>2. ToSet(queue) \subseteq Updates
  <2>1. queue \in Seq(Updates)
    BY DEF StoreInv, TypeOK
  <2> QED BY <2>1, LenProperties, ElementOfSeq DEF ToSet
<1>3. TypeOK'
  <2>1. <<>> \in Seq(Updates)
    BY EmptySeq
  <2> QED BY <1>1, <1>2, <2>1 DEF StoreInv, TypeOK
<1>4. UpdatesApart'
  <2>1. IsInjective(queue') /\ ToSet(queue') = {}
    BY <1>1, EmptyApart
  <2> QED BY <1>1, <2>1 DEF StoreInv, UpdatesApart
<1>5. Ahead'
  <2>1. \/ state = file
        \/ \E u \in Updates : state.applied = Append(file.applied, u)
    BY First DEF StoreInv, Ahead
  <2> QED BY <1>1, <2>1 DEF Ahead
<1>6. Remembers(state)' /\ Remembers(file)' /\ Len(file'.events) <= MAX_EVENTS
    BY <1>1 DEF StoreInv, Remembers
<1> QED BY <1>3, <1>4, <1>5, <1>6 DEF StoreInv

LEMMA MutateKept == ASSUME StoreParameters, StoreInv, Mutate PROVE StoreInv'
<1> DEFINE u == Head(queue)
<1>1. queue # <<>> /\ ~writing /\ failures' = failures /\ u \in Updates
    BY First DEF Mutate
<1>2. TypeOK /\ Remembers(state) /\ file \in State
    BY DEF StoreInv, TypeOK
<1>3. CASE Throws(u)
  <2>1. Reject /\ UNCHANGED state
    BY <1>3 DEF Mutate
  <2>2. failures' \in 0..MaxFailures
    BY <1>1, <1>2 DEF TypeOK
  <2> QED BY <1>1, <2>1, <2>2, RejectKept
<1>4. CASE ~Throws(u)
  <2>1. /\ state' = Mutated(u) /\ writing' = TRUE
        /\ UNCHANGED <<file, queue, broken, resolved, rejected, crashes>>
    BY <1>4 DEF Mutate
  <2> HIDE DEF u
  <2>2. /\ state' \in State /\ Len(state'.events) <= MAX_EVENTS
        /\ state'.applied = Append(state.applied, u)
        /\ Remembers(state')
    BY <1>1, <1>2, <1>4, <2>1, MutatedKept
  <2>3. TypeOK'
    BY <1>1, <1>2, <2>1, <2>2 DEF TypeOK
  <2>4. UpdatesApart'
    BY <2>1 DEF StoreInv, UpdatesApart
  <2>5. ~broken /\ state = file
    BY <1>1 DEF StoreInv, Ahead
  <2>6. Ahead'
    BY <1>1, <2>1, <2>2, <2>5 DEF Ahead, u
  <2>7. Remembers(state)' /\ Remembers(file)' /\ Len(file'.events) <= MAX_EVENTS
    BY <2>1, <2>2 DEF StoreInv, Remembers
  <2> QED BY <2>3, <2>4, <2>6, <2>7 DEF StoreInv
<1> QED BY <1>3, <1>4

LEMMA PersistKept == ASSUME StoreInv, Persist PROVE StoreInv'
<1> DEFINE u == Head(queue)
<1>1. /\ writing /\ file' = state /\ queue' = Tail(queue) /\ writing' = FALSE
      /\ resolved' = resolved \cup {u}
      /\ UNCHANGED <<state, broken, rejected, failures, crashes>>
    BY DEF Persist
<1>2. queue # <<>> /\ ~broken /\ state.applied = Append(file.applied, u)
    BY <1>1 DEF StoreInv, Ahead
<1>3. /\ u \in Updates /\ Tail(queue) \in Seq(Updates) /\ IsInjective(Tail(queue))
      /\ ToSet(queue) = ToSet(Tail(queue)) \cup {u} /\ u \notin ToSet(Tail(queue))
    BY <1>2, First
<1> HIDE DEF u
<1>4. u \notin ToSet(file.applied) /\ u \notin rejected
    BY <1>3 DEF StoreInv, UpdatesApart
<1>5. file.applied \in Seq(Updates)
    BY DEF StoreInv, TypeOK, State
<1>6. /\ ToSet(file'.applied) = ToSet(file.applied) \cup {u}
      /\ IsInjective(file'.applied)
  <2>1. file'.applied = Append(file.applied, u)
    BY <1>1, <1>2
  <2> QED BY <1>3, <1>4, <1>5, <2>1, AppendApart DEF StoreInv, UpdatesApart
<1>7. TypeOK'
    BY <1>1, <1>3 DEF StoreInv, TypeOK
<1>8. UpdatesApart'
    BY <1>1, <1>3, <1>4, <1>6 DEF StoreInv, UpdatesApart
<1>9. Ahead'
    BY <1>1, <1>2 DEF Ahead
<1>10. Remembers(state)' /\ Remembers(file)' /\ Len(file'.events) <= MAX_EVENTS
    BY <1>1 DEF StoreInv, TypeOK, Remembers
<1> QED BY <1>7, <1>8, <1>9, <1>10 DEF StoreInv

LEMMA RestartKept == ASSUME StoreParameters, StoreInv, Restart PROVE StoreInv'
<1>1. /\ state' = file /\ queue' = <<>> /\ writing' = FALSE /\ broken' = FALSE
      /\ crashes < MaxCrashes /\ crashes' = crashes + 1
      /\ UNCHANGED <<file, resolved, rejected, failures>>
    BY DEF Restart
<1>2. TypeOK'
  <2>1. <<>> \in Seq(Updates)
    BY EmptySeq
  <2>2. crashes' \in 0..MaxCrashes
    BY <1>1 DEF StoreInv, TypeOK, StoreParameters
  <2> QED BY <1>1, <2>1, <2>2 DEF StoreInv, TypeOK
<1>3. UpdatesApart'
  <2>1. IsInjective(queue') /\ ToSet(queue') = {}
    BY <1>1, EmptyApart
  <2> QED BY <1>1, <2>1 DEF StoreInv, UpdatesApart
<1>4. Ahead'
    BY <1>1 DEF Ahead
<1>5. Remembers(state)' /\ Remembers(file)' /\ Len(file'.events) <= MAX_EVENTS
    BY <1>1 DEF StoreInv, Remembers
<1> QED BY <1>1, <1>2, <1>3, <1>4, <1>5 DEF StoreInv

----------------------------------------------------------------------------
(* The invariant.                                                           *)

LEMMA InitStore == ASSUME StoreParameters, Init PROVE StoreInv
<1>1. /\ state = [applied |-> <<>>, accounts |-> {}, touched |-> [a \in Accounts |-> {}],
                  events |-> <<>>]
      /\ file = state /\ queue = <<>> /\ writing = FALSE /\ broken = FALSE
      /\ resolved = {} /\ rejected = {} /\ failures = 0 /\ crashes = 0
    BY DEF Init
<1>2. <<>> \in Seq(Updates) /\ Len(<<>>) = 0
    BY EmptySeq
<1>3. TypeOK /\ Len(file.events) <= MAX_EVENTS
  <2>1. /\ state \in State /\ file \in State
        /\ Len(state.events) = 0 /\ Len(file.events) = 0
    BY <1>1, <1>2 DEF State
  <2>2. Len(state.events) <= MAX_EVENTS /\ Len(file.events) <= MAX_EVENTS
    BY <2>1 DEF StoreParameters
  <2>3. failures \in 0..MaxFailures /\ crashes \in 0..MaxCrashes
    BY <1>1 DEF StoreParameters
  <2>4. /\ queue \in Seq(Updates) /\ writing \in BOOLEAN /\ broken \in BOOLEAN
        /\ resolved \subseteq Updates /\ rejected \subseteq Updates
    BY <1>1, <1>2
  <2> QED BY <2>1, <2>2, <2>3, <2>4 DEF TypeOK
<1>4. UpdatesApart /\ Ahead
    BY <1>1, EmptyApart DEF UpdatesApart, Ahead
<1>5. \A a \in Accounts : Since(<<>>, a) = {}
  <2>1. DOMAIN <<>> = {}
    BY <1>2, LenProperties
  <2> QED BY <2>1 DEF Since
<1>6. Remembers(state) /\ Remembers(file)
    BY <1>1, <1>5 DEF Remembers
<1> QED BY <1>3, <1>4, <1>6 DEF StoreInv

LEMMA StepStore == ASSUME StoreParameters, StoreInv, [Next]_vars PROVE StoreInv'
<1>1. CASE \E u \in Updates : UpdateCalled(u)
    BY <1>1, UpdateCalledKept
<1>2. CASE Mutate
    BY <1>2, MutateKept
<1>3. CASE Persist
    BY <1>3, PersistKept
<1>4. CASE PersistFails
  <2>1. queue # <<>>
    BY <1>4 DEF PersistFails, StoreInv, Ahead
  <2>2. failures' \in 0..MaxFailures
    BY <1>4 DEF PersistFails, StoreInv, TypeOK, StoreParameters
  <2> QED BY <1>4, <2>1, <2>2, RejectKept DEF PersistFails
<1>5. CASE Restart
    BY <1>5, RestartKept
<1>6. CASE UNCHANGED vars
  <2>1. TypeOK' /\ Len(file.events)' <= MAX_EVENTS
    BY <1>6 DEF vars, StoreInv, TypeOK
  <2>2. UpdatesApart' /\ Ahead'
    BY <1>6 DEF vars, StoreInv, UpdatesApart, Ahead
  <2>3. Remembers(state)' /\ Remembers(file)'
    BY <1>6 DEF vars, StoreInv, Remembers
  <2> QED BY <2>1, <2>2, <2>3 DEF StoreInv
<1> QED BY <1>1, <1>2, <1>3, <1>4, <1>5, <1>6 DEF Next, QueueStep

LEMMA SpecStore == ASSUME StoreParameters PROVE Spec => []StoreInv
<1>1. Init => StoreInv
    BY InitStore
<1>2. StoreInv /\ [Next]_vars => StoreInv'
    BY StepStore
<1> QED BY <1>1, <1>2, PTL DEF Spec

----------------------------------------------------------------------------
(* What the store promises.                                                 *)

\* The states and the queue keep their form, and no state keeps more events
\* than the store's limit, whatever fails (store.ts).
THEOREM StoreTyped == ASSUME StoreParameters PROVE Spec => []TypeOK
<1>1. StoreInv => TypeOK
    BY DEF StoreInv
<1> QED BY <1>1, SpecStore, PTL

\* An update whose caller was told that it succeeded (update's promise in
\* store.ts) is in the state file, once, through every later failure and restart.
THEOREM ResolvedStays == ASSUME StoreParameters PROVE Spec => []ResolvedIsStored
<1>1. StoreInv => ResolvedIsStored
    BY DEF StoreInv, UpdatesApart, ResolvedIsStored
<1> QED BY <1>1, SpecStore, PTL

\* An update whose caller was told that it failed, its own write or one before
\* it in the queue, never reaches the state file: no later write and no restart
\* brings it back (the rejected queue of store.ts).
THEOREM RejectedIsGone == ASSUME StoreParameters PROVE Spec => []RejectedStaysOut
<1>1. StoreInv => RejectedStaysOut
    BY DEF StoreInv, UpdatesApart, RejectedStaysOut
<1> QED BY <1>1, SpecStore, PTL

\* What the rest of the process reads is the file, or the file and one update
\* more: the one being written, or the one whose write broke the queue.
THEOREM OneAhead == ASSUME StoreParameters PROVE Spec => []AheadByOne
<1>1. ASSUME StoreInv
      PROVE  AheadByOne
  <2>1. file.applied \in Seq(Updates)
    BY <1>1 DEF StoreInv, TypeOK, State
  <2>2. CASE writing
    <3>1. Head(queue) \in Updates /\ state.applied = Append(file.applied, Head(queue))
        BY <1>1, <2>2, First DEF StoreInv, Ahead
    <3> QED BY <2>1, <2>2, <3>1, AppendPrefix DEF AheadByOne
  <2>3. CASE ~writing /\ state = file
    <3>1. IsPrefix(file.applied, file.applied) /\ Len(file.applied) \in Nat
        BY <2>1, AppendPrefix, LenProperties, SubSeqFull DEF IsPrefix
    <3> QED BY <2>3, <3>1 DEF AheadByOne
  <2>4. CASE broken /\ \E u \in Updates : state.applied = Append(file.applied, u)
    BY <2>1, <2>4, AppendPrefix DEF AheadByOne
  <2> QED BY <1>1, <2>2, <2>3, <2>4 DEF StoreInv, Ahead
<1> QED BY <1>1, SpecStore, PTL

\* An account that a configuration left out starts afresh when it is configured
\* again (ensureAccounts): the state of an account is what its own updates left
\* since then, in whatever order the callers were queued, failed and restarted.
THEOREM AccountsStartAfresh == ASSUME StoreParameters PROVE Spec => []ForgottenIsForgotten
<1>1. StoreInv => ForgottenIsForgotten
    BY DEF StoreInv, Remembers, ForgottenIsForgotten
<1> QED BY <1>1, SpecStore, PTL
=============================================================================
