--------------------------- MODULE BootstrapProofs ---------------------------
(***************************************************************************)
(* What build() makes of a job definition, for every definition a client   *)
(* may post.  Built is the invariant of the loop of createExecutionPlan:   *)
(* what the plan is once the loop has seen the first n ops.  It is shown   *)
(* by the least n at which it would fail.                                  *)
(***************************************************************************)
EXTENDS Bootstrap, WellFoundedInduction, NaturalsInduction, TLAPS

Below  == {p \in Nat \X Nat : p[1] < p[2]}
Stages == [group : STRING, ops : Seq(STRING)]

LEMMA LeastNumber ==
    ASSUME NEW S, S \subseteq Nat, S # {}
    PROVE  \E s \in S : \A t \in S : s <= t
<1>1. IsWellFoundedOn(Below, Nat)
  BY NatLessThanWellFounded DEF OpToRel, Below
<1>2. PICK s \in S : \A t \in S : <<t, s>> \notin Below
  BY <1>1, WFMin
<1>3. ASSUME NEW t \in S PROVE s <= t
  <2>1. s \in Nat /\ t \in Nat /\ <<t, s>> \notin Below
    BY <1>2
  <2>2. ~(t < s)
    BY <2>1 DEF Below
  <2> QED BY <2>1, <2>2
<1> QED BY <1>3

-------------------------------------------------------------------------------
(* The loop of createExecutionPlan.                                           *)

Loop(f, d, m) == f = [n \in 0..m |-> IF n = 0 THEN <<>> ELSE AddToPlan(f[n - 1], d[n])]

LEMMA LoopExists == ASSUME NEW d, NEW m \in Nat PROVE \E f : Loop(f, d, m)
<1> DEFINE S == {k \in Nat : ~ \E f : Loop(f, d, k)}
<1> SUFFICES ASSUME S # {} PROVE FALSE
  OBVIOUS
<1> S \subseteq Nat
  OBVIOUS
<1>1. PICK k \in S : \A t \in S : k <= t
  <2> HIDE DEF S
  <2> QED BY LeastNumber
<1>2. k # 0
  <2>1. Loop([n \in 0..0 |-> <<>>], d, 0)
    BY DEF Loop
  <2> QED BY <2>1
<1>3. k - 1 \in Nat /\ k - 1 \notin S
  BY <1>1, <1>2
<1>4. PICK f : Loop(f, d, k - 1)
  BY <1>3
<1> DEFINE e == [n \in 0..k |-> IF n = k THEN AddToPlan(f[k - 1], d[k]) ELSE f[n]]
<1>5. \A n \in 0..(k - 1) : e[n] = f[n]
  BY <1>1
<1>6. ASSUME NEW n \in 0..k
      PROVE  e[n] = IF n = 0 THEN <<>> ELSE AddToPlan(e[n - 1], d[n])
  <2>1. CASE n = k
    BY <1>1, <1>2, <1>5, <2>1
  <2>2. CASE n # k
    <3>1. n \in 0..(k - 1) /\ (n # 0 => n - 1 \in 0..(k - 1))
      BY <1>1, <2>2
    <3>2. f[n] = IF n = 0 THEN <<>> ELSE AddToPlan(f[n - 1], d[n])
      BY <1>4, <3>1 DEF Loop
    <3>3. e[n] = f[n] /\ (n # 0 => e[n - 1] = f[n - 1])
      BY <1>5, <3>1
    <3> HIDE DEF e
    <3> QED BY <3>2, <3>3
  <2> QED BY <2>1, <2>2
<1>7. e = [n \in 0..k |-> e[n]]
  OBVIOUS
<1>8. e = [n \in 0..k |-> IF n = 0 THEN <<>> ELSE AddToPlan(e[n - 1], d[n])]
  <2> HIDE DEF e
  <2> QED BY <1>6, <1>7
<1> HIDE DEF e
<1> QED BY <1>1, <1>8 DEF Loop

\* Plans(d)[n] is what the loop makes of its first n ops.
LEMMA PlanSteps ==
    ASSUME NEW d, Len(d) \in Nat
    PROVE  /\ Plans(d)[0] = <<>>
           /\ \A n \in 1..Len(d) : Plans(d)[n] = AddToPlan(Plans(d)[n - 1], d[n])
<1>1. Plans(d) = CHOOSE f : Loop(f, d, Len(d))
  BY DEF Plans, Loop
<1>2. \E f : Loop(f, d, Len(d))
  BY LoopExists
<1>3. Loop(Plans(d), d, Len(d))
  BY <1>1, <1>2
<1>4. Plans(d) = [n \in 0..Len(d) |-> IF n = 0 THEN <<>> ELSE AddToPlan(Plans(d)[n - 1], d[n])]
  BY <1>3 DEF Loop
<1>5. \A n \in 0..Len(d) : Plans(d)[n] = IF n = 0 THEN <<>> ELSE AddToPlan(Plans(d)[n - 1], d[n])
  BY <1>4
<1>6. 0 \in 0..Len(d) /\ \A n \in 1..Len(d) : n \in 0..Len(d) /\ n # 0
  OBVIOUS
<1>7. Plans(d)[0] = <<>>
  BY <1>5, <1>6
<1>8. \A n \in 1..Len(d) : Plans(d)[n] = AddToPlan(Plans(d)[n - 1], d[n])
  BY <1>5, <1>6
<1> QED BY <1>7, <1>8

-------------------------------------------------------------------------------
(* What the plan is once the loop has seen the first n ops of the definition. *)

\* A stage lists ops of its group, each defined after the ones before it in the list.
Lists(ids, key, d, n) ==
    /\ ids # <<>>
    /\ \A a \in DOMAIN ids : \E i \in 1..n :
          /\ ids[a] = d[i].id /\ GroupKey(d[i]) = key
          /\ \A b \in 1..(a - 1) : \E h \in 1..(i - 1) : ids[b] = d[h].id

OneGroupEach(p) == \A g, h \in DOMAIN p : p[g].group = p[h].group => g = h

Placed(p, d, n) ==
    \A i \in 1..n : \E g \in DOMAIN p : p[g].group = GroupKey(d[i]) /\ Contains(p[g].ops, d[i].id)

\* An op of the first of two stages is defined before any op of the second.
FirstsInOrder(p, d, n) ==
    \A g, h \in DOMAIN p : g < h =>
        \E i \in 1..n : GroupKey(d[i]) = p[g].group /\ \A k \in 1..i : GroupKey(d[k]) # p[h].group

Built(p, d, n) ==
    /\ p \in Seq(Stages)
    /\ \A g \in DOMAIN p : Lists(p[g].ops, p[g].group, d, n)
    /\ OneGroupEach(p) /\ Placed(p, d, n) /\ FirstsInOrder(p, d, n)

LEMMA OperationTyped ==
    ASSUME NEW d \in Seq(Operations), NEW n \in DOMAIN d
    PROVE  d[n] \in Operations /\ d[n].id \in STRING /\ GroupKey(d[n]) \in STRING
<1>1. d[n] \in Operations
  OBVIOUS
<1>2. d[n].id \in STRING /\ d[n].group \in STRING
  BY <1>1 DEF Operations
<1> QED BY <1>1, <1>2 DEF GroupKey

LEMMA AppendedItem ==
    ASSUME NEW S, NEW s \in Seq(S), NEW x \in S, NEW len, len = Len(s)
    PROVE  /\ len \in Nat /\ DOMAIN s = 1..len
           /\ Append(s, x) \in Seq(S) /\ Append(s, x) # <<>>
           /\ DOMAIN Append(s, x) = 1..(len + 1) /\ Append(s, x)[len + 1] = x
           /\ \A a \in 1..len : Append(s, x)[a] = s[a]
           /\ \A a : a \in 1..(len + 1) <=> a \in 1..len \/ a = len + 1
<1>1. len \in Nat /\ DOMAIN s = 1..len
  OBVIOUS
<1>2. /\ Append(s, x) \in Seq(S) /\ Append(s, x) # <<>>
      /\ DOMAIN Append(s, x) = 1..(len + 1) /\ Append(s, x)[len + 1] = x
  OBVIOUS
<1>3. \A a \in 1..len : Append(s, x)[a] = s[a]
  OBVIOUS
<1>4. \A a : a \in 1..(len + 1) <=> a \in 1..len \/ a = len + 1
  BY <1>1
<1> QED BY <1>1, <1>2, <1>3, <1>4

LEMMA AppendedId ==
    ASSUME NEW S, NEW s \in Seq(S), NEW x \in S
    PROVE  \A y : Contains(Append(s, x), y) <=> Contains(s, y) \/ y = x
<1> DEFINE app == Append(s, x)
<1>1. PICK len, top : len = Len(s) /\ top = len + 1
  OBVIOUS
<1>2. /\ DOMAIN s = 1..len /\ DOMAIN app = 1..top /\ app[top] = x
      /\ \A a \in 1..len : app[a] = s[a]
      /\ \A a : a \in 1..top <=> a \in 1..len \/ a = top
  BY <1>1, AppendedItem
<1>3. DOMAIN s = 1..Len(s) /\ DOMAIN app = 1..Len(app)
  OBVIOUS
<1> HIDE DEF app
<1>4. \A y : Contains(app, y) <=> Contains(s, y) \/ y = x
  BY <1>2, <1>3, Zenon DEF Contains
<1> QED BY <1>4 DEF app

\* A list grows by the next op of its group.
LEMMA ListGrows ==
    ASSUME NEW d \in Seq(Operations), NEW n \in Nat, NEW m \in DOMAIN d, m = n + 1,
           NEW ids \in Seq(STRING), NEW key
    PROVE  /\ Lists(ids, key, d, n) => Lists(ids, key, d, m)
           /\ Lists(ids, key, d, n) /\ key = GroupKey(d[m])
                 => Lists(Append(ids, d[m].id), key, d, m)
           /\ key = GroupKey(d[m]) => Lists(<<d[m].id>>, key, d, m)
<1>1. m \in 1..m /\ n = m - 1 /\ \A i \in 1..n : i \in 1..m
  OBVIOUS
<1>2. Lists(ids, key, d, n) => Lists(ids, key, d, m)
  <2> SUFFICES ASSUME Lists(ids, key, d, n) PROVE Lists(ids, key, d, m)
    OBVIOUS
  <2> QED BY <1>1, Zenon DEF Lists
<1>3. ASSUME Lists(ids, key, d, n), key = GroupKey(d[m])
      PROVE  Lists(Append(ids, d[m].id), key, d, m)
  <2> DEFINE app == Append(ids, d[m].id)
  <2>1. PICK len, top : len = Len(ids) /\ top = len + 1
    OBVIOUS
  <2>2. /\ app # <<>> /\ DOMAIN ids = 1..len /\ DOMAIN app = 1..top /\ app[top] = d[m].id
        /\ \A a \in 1..len : app[a] = ids[a]
        /\ \A a : a \in 1..top <=> a \in 1..len \/ a = top
    BY <2>1, AppendedItem, OperationTyped
  <2>3. len = top - 1 /\ \A a \in 1..len : \A b \in 1..(a - 1) : b \in 1..len
    BY <2>1
  <2> HIDE DEF app
  <2>4. ASSUME NEW a \in 1..len
        PROVE  \E i \in 1..m :
                  /\ app[a] = d[i].id /\ GroupKey(d[i]) = key
                  /\ \A b \in 1..(a - 1) : \E h \in 1..(i - 1) : app[b] = d[h].id
    <3>1. PICK i \in 1..n : /\ ids[a] = d[i].id /\ GroupKey(d[i]) = key
                            /\ \A b \in 1..(a - 1) : \E h \in 1..(i - 1) : ids[b] = d[h].id
      BY <1>3, <2>2, Zenon DEF Lists
    <3> QED BY <1>1, <2>2, <2>3, <3>1, Zenon
  <2>5. \A b \in 1..(top - 1) : \E h \in 1..(m - 1) : app[b] = d[h].id
    <3>1. \A b \in 1..len : \E h \in 1..n : app[b] = d[h].id
      BY <1>3, <2>2, Zenon DEF Lists
    <3> QED BY <1>1, <2>3, <3>1
  <2>6. \E i \in 1..m :
           /\ app[top] = d[i].id /\ GroupKey(d[i]) = key
           /\ \A b \in 1..(top - 1) : \E h \in 1..(i - 1) : app[b] = d[h].id
    <3> WITNESS m \in 1..m
    <3> QED BY <1>3, <2>2, <2>5
  <2>7. ASSUME NEW a \in DOMAIN app
        PROVE  \E i \in 1..m :
                  /\ app[a] = d[i].id /\ GroupKey(d[i]) = key
                  /\ \A b \in 1..(a - 1) : \E h \in 1..(i - 1) : app[b] = d[h].id
    <3>1. a \in 1..len \/ a = top
      BY <2>2
    <3>2. CASE a = top
      BY <2>6, <3>2
    <3> QED BY <2>4, <3>1, <3>2, Zenon
  <2>8. Lists(app, key, d, m)
    BY <2>2, <2>7, Zenon DEF Lists
  <2> QED BY <2>8, Zenon DEF app
<1>4. ASSUME key = GroupKey(d[m]) PROVE Lists(<<d[m].id>>, key, d, m)
  <2> DEFINE one == <<d[m].id>>
  <2>1. one # <<>> /\ DOMAIN one = {1} /\ one[1] = d[m].id
    OBVIOUS
  <2>2. \A b \in 1..(1 - 1) : FALSE
    OBVIOUS
  <2> HIDE DEF one
  <2>3. Lists(one, key, d, m)
    BY <1>1, <1>4, <2>1, <2>2 DEF Lists
  <2> QED BY <2>3 DEF one
<1> QED BY <1>2, <1>3, <1>4

\* What AddToPlan makes of a plan: the stage at "at" has the op, as its last or its only one.
Adds(p, q, op, at) ==
    /\ DOMAIN q = DOMAIN p \cup {at} /\ q[at].group = GroupKey(op)
    /\ \A g \in DOMAIN p \ {at} : q[g] = p[g] /\ p[g].group # GroupKey(op)
    /\ \/ at \in DOMAIN p /\ p[at].group = GroupKey(op) /\ q[at].ops = Append(p[at].ops, op.id)
       \/ at \notin DOMAIN p /\ q[at].ops = <<op.id>> /\ \A g \in DOMAIN p : g < at

LEMMA Added ==
    ASSUME NEW p \in Seq(Stages), OneGroupEach(p), NEW op, op.id \in STRING, GroupKey(op) \in STRING
    PROVE  /\ AddToPlan(p, op) \in Seq(Stages)
           /\ \E at \in DOMAIN AddToPlan(p, op) : Adds(p, AddToPlan(p, op), op, at)
<1> DEFINE key == GroupKey(op)
           q   == AddToPlan(p, op)
<1>1. PICK len : len = Len(p) /\ len \in Nat /\ DOMAIN p = 1..len
  OBVIOUS
<1>2. \A g \in DOMAIN p : p[g] \in Stages /\ p[g].ops \in Seq(STRING)
  <2>1. \A g \in DOMAIN p : p[g] \in Stages
    OBVIOUS
  <2> QED BY <2>1 DEF Stages
<1>3. CASE \E g \in DOMAIN p : p[g].group = key
  <2>1. PICK at \in DOMAIN p : p[at].group = key
    BY <1>3
  <2> DEFINE stage == [p[at] EXCEPT !.ops = Append(@, op.id)]
  <2>2. \A g \in DOMAIN p \ {at} : p[g].group # key
    BY <2>1 DEF OneGroupEach
  <2>3. q = [g \in DOMAIN p |-> IF g = at THEN stage ELSE p[g]]
    BY <1>3, <2>1, <2>2 DEF AddToPlan
  <2>4. /\ stage \in Stages /\ stage.group = key
        /\ stage.ops = Append(p[at].ops, op.id)
    <3>1. p[at] \in Stages /\ Append(p[at].ops, op.id) \in Seq(STRING)
      BY <1>2, AppendedItem
    <3> QED BY <2>1, <3>1 DEF Stages
  <2> HIDE DEF q, stage
  <2>5. q \in [1..len -> Stages]
    BY <1>1, <1>2, <2>3, <2>4
  <2>6. q \in Seq(Stages)
    BY <1>1, <2>5
  <2>7. Adds(p, q, op, at)
    BY <2>1, <2>2, <2>3, <2>4 DEF Adds
  <2>8. at \in DOMAIN q
    BY <2>1, <2>3
  <2> QED BY <2>6, <2>7, <2>8 DEF q
<1>4. CASE ~ \E g \in DOMAIN p : p[g].group = key
  <2> DEFINE stage == [group |-> key, ops |-> <<op.id>>]
  <2>1. q = Append(p, stage)
    BY <1>4 DEF AddToPlan
  <2>2. stage \in Stages /\ stage.group = key /\ stage.ops = <<op.id>>
    <3>1. <<op.id>> \in Seq(STRING)
      OBVIOUS
    <3> QED BY <3>1 DEF Stages
  <2> HIDE DEF q, stage
  <2>3. /\ q \in Seq(Stages) /\ DOMAIN q = 1..(len + 1) /\ q[len + 1] = stage
        /\ \A a \in 1..len : q[a] = p[a]
        /\ \A a : a \in 1..(len + 1) <=> a \in 1..len \/ a = len + 1
    BY <1>1, <2>1, <2>2, AppendedItem
  <2>4. len + 1 \notin DOMAIN p /\ \A g \in DOMAIN p : g < len + 1
    BY <1>1
  <2>5. DOMAIN q = DOMAIN p \cup {len + 1}
    BY <1>1, <2>3
  <2>6. Adds(p, q, op, len + 1)
    BY <1>1, <1>4, <2>2, <2>3, <2>4, <2>5, Zenon DEF Adds
  <2> QED BY <2>3, <2>5, <2>6 DEF q
<1> QED BY <1>3, <1>4

\* The next op leaves the plan built.
LEMMA BuiltOn ==
    ASSUME NEW d \in Seq(Operations), NEW n \in Nat, NEW m \in DOMAIN d, m = n + 1,
           NEW p, Built(p, d, n)
    PROVE  Built(AddToPlan(p, d[m]), d, m)
<1> DEFINE q   == AddToPlan(p, d[m])
           key == GroupKey(d[m])
<1>1. d[m].id \in STRING /\ key \in STRING
  BY OperationTyped
<1>2. PICK at \in DOMAIN q : Adds(p, q, d[m], at)
  BY <1>1, Added DEF Built
<1>3. q \in Seq(Stages)
  BY <1>1, Added DEF Built
<1> HIDE DEF q
<1>4. /\ p \in Seq(Stages) /\ OneGroupEach(p) /\ Placed(p, d, n) /\ FirstsInOrder(p, d, n)
      /\ \A g \in DOMAIN p : Lists(p[g].ops, p[g].group, d, n)
  BY DEF Built
<1>5. \A g \in DOMAIN p : p[g].ops \in Seq(STRING)
  <2>1. \A g \in DOMAIN p : p[g] \in Stages
    BY <1>4
  <2> QED BY <2>1 DEF Stages
<1>6. /\ DOMAIN q = DOMAIN p \cup {at} /\ q[at].group = key
      /\ \A g \in DOMAIN p \ {at} : q[g] = p[g] /\ p[g].group # key
  BY <1>2 DEF Adds
<1>7. \/ at \in DOMAIN p /\ p[at].group = key /\ q[at].ops = Append(p[at].ops, d[m].id)
      \/ at \notin DOMAIN p /\ q[at].ops = <<d[m].id>> /\ \A g \in DOMAIN p : g < at
  BY <1>2 DEF Adds
<1>8. \A i : i \in 1..m <=> i \in 1..n \/ i = m
  OBVIOUS
<1>9. \A g \in DOMAIN p : q[g].group = p[g].group
  BY <1>6, <1>7
<1>10. ASSUME NEW g \in DOMAIN q PROVE Lists(q[g].ops, q[g].group, d, m)
  <2>1. CASE g # at
    <3>1. g \in DOMAIN p /\ q[g] = p[g] /\ Lists(p[g].ops, p[g].group, d, n)
      BY <1>4, <1>6, <2>1
    <3> QED BY <1>5, <3>1, ListGrows
  <2>2. CASE g = at /\ at \in DOMAIN p
    <3>1. q[g].ops = Append(p[at].ops, d[m].id) /\ q[g].group = key
      BY <1>6, <1>7, <2>2
    <3>2. Lists(p[at].ops, key, d, n)
      BY <1>4, <1>7, <2>2
    <3>3. Lists(Append(p[at].ops, d[m].id), key, d, m)
      BY <1>5, <2>2, <3>2, ListGrows
    <3> QED BY <3>1, <3>3
  <2>3. CASE g = at /\ at \notin DOMAIN p
    <3>1. q[g].ops = <<d[m].id>> /\ q[g].group = key
      BY <1>6, <1>7, <2>3
    <3>2. <<>> \in Seq(STRING)
      OBVIOUS
    <3>3. Lists(<<d[m].id>>, key, d, m)
      BY <3>2, ListGrows
    <3> QED BY <3>1, <3>3
  <2> QED BY <2>1, <2>2, <2>3
<1>11. OneGroupEach(q)
  <2>1. ASSUME NEW g \in DOMAIN q, NEW h \in DOMAIN q, q[g].group = q[h].group PROVE g = h
    BY <1>4, <1>6, <1>9, <2>1 DEF OneGroupEach
  <2> QED BY <2>1 DEF OneGroupEach
<1>12. Placed(q, d, m)
  <2>1. Contains(q[at].ops, d[m].id) /\ \A x : at \in DOMAIN p /\ Contains(p[at].ops, x) => Contains(q[at].ops, x)
    <3>1. CASE at \in DOMAIN p
      <4>1. p[at].ops \in Seq(STRING) /\ q[at].ops = Append(p[at].ops, d[m].id)
        BY <1>5, <1>7, <3>1
      <4>2. \A y : Contains(Append(p[at].ops, d[m].id), y) <=> Contains(p[at].ops, y) \/ y = d[m].id
        <5> DEFINE T == STRING
        <5>1. p[at].ops \in Seq(T) /\ d[m].id \in T
          BY <1>1, <4>1
        <5> HIDE DEF T
        <5> QED BY <5>1, AppendedId
      <4> QED BY <4>1, <4>2, Zenon
    <3>2. CASE at \notin DOMAIN p
      <4>1. q[at].ops = <<d[m].id>>
        BY <1>7, <3>2
      <4>2. q[at].ops[1] = d[m].id /\ 1 \in 1..Len(q[at].ops)
        BY <4>1
      <4> QED BY <3>2, <4>2, Zenon DEF Contains
    <3> QED BY <3>1, <3>2
  <2>2. \A g \in DOMAIN p : \A x : Contains(p[g].ops, x) => Contains(q[g].ops, x)
    BY <1>6, <2>1
  <2>3. ASSUME NEW i \in 1..m
        PROVE  \E g \in DOMAIN q : q[g].group = GroupKey(d[i]) /\ Contains(q[g].ops, d[i].id)
    <3>1. CASE i = m
      BY <1>6, <2>1, <3>1
    <3>2. CASE i \in 1..n
      BY <1>4, <1>6, <1>9, <2>2, <3>2, Zenon DEF Placed
    <3> QED BY <1>8, <3>1, <3>2
  <2> QED BY <2>3 DEF Placed
<1>13. FirstsInOrder(q, d, m)
  <2> SUFFICES ASSUME NEW g \in DOMAIN q, NEW h \in DOMAIN q, g < h
               PROVE  \E i \in 1..m : /\ GroupKey(d[i]) = q[g].group
                                     /\ \A k \in 1..i : GroupKey(d[k]) # q[h].group
    BY DEF FirstsInOrder
  <2>1. CASE g \in DOMAIN p /\ h \in DOMAIN p
    <3>1. PICK i \in 1..n : GroupKey(d[i]) = p[g].group /\ \A k \in 1..i : GroupKey(d[k]) # p[h].group
      BY <1>4, <2>1, Zenon DEF FirstsInOrder
    <3> QED BY <1>8, <1>9, <2>1, <3>1, Zenon
  <2>2. CASE h = at /\ at \notin DOMAIN p
    <3>1. g \in DOMAIN p
      BY <1>6, <2>2, <1>3
    <3>2. Lists(p[g].ops, p[g].group, d, n) /\ p[g].ops \in Seq(STRING)
      BY <1>4, <1>5, <3>1
    <3>3. 1 \in DOMAIN p[g].ops
      BY <3>2 DEF Lists
    <3>4. PICK i \in 1..n : GroupKey(d[i]) = p[g].group
      BY <3>2, <3>3, Zenon DEF Lists
    <3>5. \A k \in 1..n : GroupKey(d[k]) # key
      BY <1>4, <1>6, <2>2 DEF Placed
    <3>6. \A k \in 1..i : k \in 1..n
      OBVIOUS
    <3> QED BY <1>6, <1>8, <1>9, <2>2, <3>1, <3>4, <3>5, <3>6, Zenon
  <2>3. CASE g = at /\ at \notin DOMAIN p
    <3>1. h \in DOMAIN p \/ h = at
      BY <1>6
    <3>2. h \in DOMAIN p => h < at
      BY <1>7, <2>3
    <3>3. DOMAIN q \subseteq Nat
      BY <1>3
    <3> QED BY <2>3, <3>1, <3>2, <3>3
  <2> QED BY <1>6, <2>1, <2>2, <2>3
<1>14. Built(q, d, m)
  BY <1>3, <1>10, <1>11, <1>12, <1>13, Zenon DEF Built
<1> QED BY <1>14 DEF q

LEMMA PlanBuilt ==
    ASSUME NEW d \in Seq(Operations)
    PROVE  Built(createExecutionPlan(d), d, Len(d))
<1> DEFINE S == {n \in 0..Len(d) : ~Built(Plans(d)[n], d, n)}
<1>1. Len(d) \in Nat /\ DOMAIN d = 1..Len(d) /\ S \subseteq Nat
  OBVIOUS
<1>2. S = {}
  <2> SUFFICES ASSUME S # {} PROVE FALSE
    OBVIOUS
  <2>1. PICK n \in S : \A t \in S : n <= t
    <3> HIDE DEF S
    <3> QED BY <1>1, LeastNumber
  <2>2. n # 0
    <3>1. Plans(d)[0] = <<>> /\ <<>> \in Seq(Stages) /\ DOMAIN <<>> = {} /\ 1..0 = {}
      BY <1>1, PlanSteps
    <3>2. Built(<<>>, d, 0)
      BY <3>1 DEF Built, OneGroupEach, Placed, FirstsInOrder
    <3> QED BY <3>1, <3>2
  <2>3. n - 1 \in 0..Len(d) /\ n - 1 \notin S /\ n - 1 \in Nat /\ n \in DOMAIN d /\ n = (n - 1) + 1
    BY <1>1, <2>1, <2>2
  <2>4. Built(Plans(d)[n - 1], d, n - 1)
    BY <2>3
  <2>5. Built(AddToPlan(Plans(d)[n - 1], d[n]), d, n)
    BY <2>3, <2>4, BuiltOn
  <2>6. Plans(d)[n] = AddToPlan(Plans(d)[n - 1], d[n])
    BY <1>1, <2>3, PlanSteps
  <2> QED BY <2>5, <2>6
<1> QED BY <1>1, <1>2 DEF createExecutionPlan

-------------------------------------------------------------------------------
(* The plan of a definition that build() accepts.                             *)

\* What validateExecutionPlan and createOperationMap let through.
Valid(d) == d \in Seq(Operations) /\ Duplicates(d) = {} /\ PlanErrors(d) = {}

Stage(plan, id) == CHOOSE g \in DOMAIN plan : Contains(plan[g].ops, id)

LEMMA IdsDiffer ==
    ASSUME NEW d, Valid(d), NEW i \in DOMAIN d, NEW j \in DOMAIN d, d[i].id = d[j].id
    PROVE  i = j
<1>1. DOMAIN d = 1..Len(d) /\ Len(d) \in Nat
  BY DEF Valid
<1>2. ASSUME NEW a \in DOMAIN d, NEW b \in DOMAIN d, a < b, d[a].id = d[b].id PROVE FALSE
  <2>1. a \in 1..(b - 1)
    BY <1>1, <1>2
  <2>2. d[b].id \in Duplicates(d)
    BY <1>2, <2>1 DEF Duplicates
  <2> QED BY <2>2 DEF Valid
<1> QED BY <1>1, <1>2

LEMMA OpOfId ==
    ASSUME NEW d, Valid(d), NEW i \in DOMAIN d
    PROVE  d[i].id \in Ids(d) /\ opMap(d)[d[i].id] = d[i]
<1>1. d[i].id \in Ids(d)
  BY DEF Ids
<1>2. (CHOOSE j \in DOMAIN d : d[j].id = d[i].id) = i
  BY IdsDiffer
<1> QED BY <1>1, <1>2 DEF opMap

\* An op is in the stage of its group and in no other.
LEMMA StageOfOp ==
    ASSUME NEW d, Valid(d), NEW i \in DOMAIN d
    PROVE  LET plan == createExecutionPlan(d)
               g    == Stage(plan, d[i].id)
           IN  /\ g \in DOMAIN plan /\ plan[g].group = GroupKey(d[i])
               /\ {h \in DOMAIN plan : Contains(plan[h].ops, d[i].id)} = {g}
               /\ \A h \in DOMAIN plan : plan[h].group = GroupKey(d[i]) => h = g
<1> DEFINE plan == createExecutionPlan(d)
           g    == Stage(plan, d[i].id)
<1>1. Built(plan, d, Len(d)) /\ DOMAIN d = 1..Len(d)
  BY PlanBuilt DEF Valid
<1> HIDE DEF plan
<1>2. PICK h \in DOMAIN plan : plan[h].group = GroupKey(d[i]) /\ Contains(plan[h].ops, d[i].id)
  BY <1>1, Zenon DEF Built, Placed
<1>3. g \in DOMAIN plan /\ Contains(plan[g].ops, d[i].id)
  BY <1>2 DEF Stage
<1>4. ASSUME NEW k \in DOMAIN plan, Contains(plan[k].ops, d[i].id)
      PROVE  plan[k].group = GroupKey(d[i])
  <2>1. plan[k].ops \in Seq(STRING)
    <3>1. plan[k] \in Stages
      BY <1>1 DEF Built
    <3> QED BY <3>1 DEF Stages
  <2>2. PICK a \in DOMAIN plan[k].ops : plan[k].ops[a] = d[i].id
    BY <1>4, <2>1 DEF Contains
  <2>3. Lists(plan[k].ops, plan[k].group, d, Len(d))
    BY <1>1 DEF Built
  <2>4. PICK j \in 1..Len(d) : plan[k].ops[a] = d[j].id /\ GroupKey(d[j]) = plan[k].group
    BY <2>2, <2>3, Zenon DEF Lists
  <2> QED BY <1>1, <2>2, <2>4, IdsDiffer
<1>5. \A k \in DOMAIN plan : Contains(plan[k].ops, d[i].id) => k = h
  BY <1>1, <1>2, <1>4 DEF Built, OneGroupEach
<1>6. g = h
  BY <1>3, <1>5
<1>7. \A k \in DOMAIN plan : plan[k].group = GroupKey(d[i]) => k = h
  BY <1>1, <1>2 DEF Built, OneGroupEach
<1> HIDE DEF g
<1> QED BY <1>2, <1>3, <1>5, <1>6, <1>7 DEF plan, g

\* The stages of a plan hold the groups, in the order of their first ops.
LEMMA PlanOfValid ==
    ASSUME NEW d, Valid(d), NEW plan, plan = createExecutionPlan(d)
    PROVE  /\ \A i \in DOMAIN d :
                 /\ Stage(plan, d[i].id) \in DOMAIN plan
                 /\ {h \in DOMAIN plan : Contains(plan[h].ops, d[i].id)} = {Stage(plan, d[i].id)}
           /\ \A g \in DOMAIN plan : ListsInOrder(plan[g].ops, d)
           /\ \A i, j \in DOMAIN d :
                 Stage(plan, d[i].id) = Stage(plan, d[j].id) <=> GroupKey(d[i]) = GroupKey(d[j])
           /\ \A i, j \in DOMAIN d :
                 Stage(plan, d[i].id) < Stage(plan, d[j].id) =>
                     \E h \in 1..i : /\ Stage(plan, d[h].id) = Stage(plan, d[i].id)
                                     /\ \A k \in 1..h : Stage(plan, d[k].id) # Stage(plan, d[j].id)
<1>1. Built(plan, d, Len(d)) /\ DOMAIN d = 1..Len(d) /\ Len(d) \in Nat
  BY PlanBuilt DEF Valid
<1>2. \A i \in DOMAIN d :
         /\ Stage(plan, d[i].id) \in DOMAIN plan
         /\ {h \in DOMAIN plan : Contains(plan[h].ops, d[i].id)} = {Stage(plan, d[i].id)}
  BY StageOfOp
<1>3. \A i \in DOMAIN d :
         /\ plan[Stage(plan, d[i].id)].group = GroupKey(d[i])
         /\ \A h \in DOMAIN plan : plan[h].group = GroupKey(d[i]) => h = Stage(plan, d[i].id)
  BY StageOfOp
<1>4. ASSUME NEW g \in DOMAIN plan PROVE ListsInOrder(plan[g].ops, d)
  <2>1. Lists(plan[g].ops, plan[g].group, d, Len(d))
    BY <1>1 DEF Built
  <2>2. \A a \in DOMAIN plan[g].ops : \E i \in DOMAIN d :
           /\ plan[g].ops[a] = d[i].id
           /\ \A b \in 1..(a - 1) : \E h \in 1..(i - 1) : plan[g].ops[b] = d[h].id
    BY <1>1, <2>1, Zenon DEF Lists
  <2>3. plan[g].ops # <<>>
    BY <2>1 DEF Lists
  <2> QED BY <2>2, <2>3, Zenon DEF ListsInOrder
<1>5. ASSUME NEW i \in DOMAIN d, NEW j \in DOMAIN d
      PROVE  Stage(plan, d[i].id) = Stage(plan, d[j].id) <=> GroupKey(d[i]) = GroupKey(d[j])
  BY <1>2, <1>3
<1>6. ASSUME NEW i \in DOMAIN d, NEW j \in DOMAIN d, Stage(plan, d[i].id) < Stage(plan, d[j].id)
      PROVE  \E h \in 1..i : /\ Stage(plan, d[h].id) = Stage(plan, d[i].id)
                             /\ \A k \in 1..h : Stage(plan, d[k].id) # Stage(plan, d[j].id)
  <2>1. PICK f \in 1..Len(d) : /\ GroupKey(d[f]) = GroupKey(d[i])
                               /\ \A k \in 1..f : GroupKey(d[k]) # GroupKey(d[j])
    <3> DEFINE g == Stage(plan, d[i].id)
               h == Stage(plan, d[j].id)
    <3>1. g \in DOMAIN plan /\ h \in DOMAIN plan /\ g < h
      BY <1>2, <1>6
    <3>2. plan[g].group = GroupKey(d[i]) /\ plan[h].group = GroupKey(d[j])
      BY <1>3
    <3> HIDE DEF g, h
    <3>3. \E f \in 1..Len(d) : /\ GroupKey(d[f]) = plan[g].group
                               /\ \A k \in 1..f : GroupKey(d[k]) # plan[h].group
      BY <1>1, <3>1 DEF Built, FirstsInOrder
    <3> QED BY <3>2, <3>3
  <2>2. \A k \in 1..f : k \in DOMAIN d /\ Stage(plan, d[k].id) # Stage(plan, d[j].id)
    <3> SUFFICES ASSUME NEW k \in 1..f PROVE k \in DOMAIN d /\ Stage(plan, d[k].id) # Stage(plan, d[j].id)
      OBVIOUS
    <3>1. k \in DOMAIN d
      BY <1>1
    <3> QED BY <1>5, <2>1, <3>1
  <2>3. Stage(plan, d[f].id) = Stage(plan, d[i].id)
    BY <1>1, <1>5, <2>1
  <2>4. CASE f <= i
    <3>1. f \in 1..i
      BY <1>1, <2>4
    <3> QED BY <2>2, <2>3, <3>1, Zenon
  <2>5. CASE i < f
    <3>1. i \in 1..i /\ \A k \in 1..i : k \in 1..f
      BY <1>1, <2>5
    <3> QED BY <2>2, <3>1, Zenon
  <2> QED BY <1>1, <2>4, <2>5
<1> QED BY <1>2, <1>4, <1>5, <1>6, Zenon

\* A dependency of a valid definition is of another op, of the same declared group or of none.
LEMMA DeclaredSound ==
    ASSUME NEW d, Valid(d), NEW a \in Ids(d), NEW b \in opMap(d)[a].depends_on
    PROVE  b \in Ids(d) /\ a # b /\ opMap(d)[b].group = opMap(d)[a].group
<1>1. PICK i \in DOMAIN d : d[i].id = a
  BY DEF Ids
<1>2. opMap(d)[a] = d[i]
  BY <1>1, OpOfId
<1>3. <<a, b>> \notin PlanErrors(d)
  BY DEF Valid
<1>4. \/ d[i].id = b
      \/ b \notin Ids(d)
      \/ opMap(d)[b].group # d[i].group
      => <<d[i].id, b>> \in PlanErrors(d)
  <2>1. b \in d[i].depends_on
    BY <1>2
  <2> DEFINE E(op) == {<<op.id, dep>> : dep \in {x \in op.depends_on :
                                                   \/ x = op.id
                                                   \/ x \notin Ids(d)
                                                   \/ opMap(d)[x].group # op.group}}
  <2>2. PlanErrors(d) = UNION {E(d[j]) : j \in DOMAIN d}
    BY DEF PlanErrors
  <2>3. \/ d[i].id = b
        \/ b \notin Ids(d)
        \/ opMap(d)[b].group # d[i].group
        => <<d[i].id, b>> \in E(d[i])
    BY <2>1
  <2> HIDE DEF E
  <2> QED BY <2>2, <2>3
<1> QED BY <1>1, <1>2, <1>3, <1>4

LEMMA MapOfValid ==
    ASSUME NEW d, Valid(d), NEW map, map = createDependencyMap(d)
    PROVE  \A a \in Ids(d) :
              /\ map[a].dependencies =
                    {b \in Ids(d) : \/ b \in opMap(d)[a].depends_on /\ ~opMap(d)[a].serves
                                    \/ a \in opMap(d)[b].depends_on /\ opMap(d)[b].serves}
              /\ map[a].dependents =
                    {b \in Ids(d) : \/ b \in opMap(d)[a].depends_on /\ opMap(d)[a].serves
                                    \/ a \in opMap(d)[b].depends_on /\ ~opMap(d)[b].serves}
BY DEF createDependencyMap

LEMMA SameGroupSameStage ==
    ASSUME NEW d, Valid(d), NEW a \in Ids(d), NEW b \in Ids(d),
           opMap(d)[a].group = opMap(d)[b].group, opMap(d)[a].group # NoGroup
    PROVE  Stage(createExecutionPlan(d), a) = Stage(createExecutionPlan(d), b)
<1>1. PICK i \in DOMAIN d : d[i].id = a
  BY DEF Ids
<1>2. PICK j \in DOMAIN d : d[j].id = b
  BY DEF Ids
<1>3. opMap(d)[a] = d[i] /\ opMap(d)[b] = d[j]
  BY <1>1, <1>2, OpOfId
<1>4. GroupKey(d[i]) = GroupKey(d[j])
  BY <1>3 DEF GroupKey
<1> QED BY <1>1, <1>2, <1>4, PlanOfValid

-------------------------------------------------------------------------------
(* The theorems.                                                              *)

\* bootstrap() leaves the plan and the map of a definition without errors.
FromDefinition ==
    /\ job \in Seq(Operations)
    /\ Accepted => /\ Valid(job)
                   /\ executionPlan = createExecutionPlan(job)
                   /\ dependecyMap = createDependencyMap(job)

LEMMA FromDefinitionAlways == Spec => []FromDefinition
<1>1. Init => FromDefinition
  BY DefinitionAssumption DEF Init, FromDefinition, Accepted
<1>2. FromDefinition /\ [Next]_vars => FromDefinition'
  <2> SUFFICES ASSUME FromDefinition, [Next]_vars PROVE FromDefinition'
    OBVIOUS
  <2>1. CASE Bootstraps
    BY <2>1 DEF Bootstraps, FromDefinition, Accepted, Valid
  <2>2. CASE InitError
    BY <2>2 DEF InitError, FromDefinition, Accepted
  <2>3. CASE UNCHANGED vars
    BY <2>3 DEF vars, FromDefinition, Accepted
  <2> QED BY <2>1, <2>2, <2>3 DEF Next
<1> QED BY <1>1, <1>2, PTL DEF Spec

LEMMA StageIsStageOf == \A id : StageOf(id) = Stage(executionPlan, id)
BY DEF StageOf, Stage

LEMMA PlanIsPartition == FromDefinition => PlanPartitions
<1> SUFFICES ASSUME FromDefinition, Accepted PROVE PlanPartitions
  BY DEF PlanPartitions
<1>1. Valid(job) /\ executionPlan = createExecutionPlan(job)
  BY DEF FromDefinition
<1> QED BY <1>1, PlanOfValid, StageIsStageOf DEF PlanPartitions

LEMMA DependenciesAreSound == FromDefinition => DependenciesSound
<1> SUFFICES ASSUME FromDefinition, Accepted,
                    NEW a \in Ids(job), NEW b \in Ids(job), b \in dependecyMap[a].dependencies
             PROVE  /\ a \in dependecyMap[b].dependents
                    /\ a # b
                    /\ opMap(job)[a].group # NoGroup => StageOf(a) = StageOf(b)
  BY DEF DependenciesSound
<1>1. /\ Valid(job) /\ executionPlan = createExecutionPlan(job)
      /\ dependecyMap = createDependencyMap(job)
  BY DEF FromDefinition
<1>2. \/ b \in opMap(job)[a].depends_on /\ ~opMap(job)[a].serves
      \/ a \in opMap(job)[b].depends_on /\ opMap(job)[b].serves
  BY <1>1, MapOfValid
<1>3. a # b /\ opMap(job)[a].group = opMap(job)[b].group
  BY <1>1, <1>2, DeclaredSound
<1>4. a \in dependecyMap[b].dependents
  BY <1>1, <1>2, MapOfValid
<1> QED BY <1>1, <1>3, <1>4, SameGroupSameStage, StageIsStageOf

LEMMA ServersGoFirstHolds == FromDefinition => ServersGoFirst
<1> SUFFICES ASSUME FromDefinition, Accepted, NEW a \in Ids(job), NEW b \in Ids(job),
                    opMap(job)[a].serves, b \in opMap(job)[a].depends_on
             PROVE  /\ a \in dependecyMap[b].dependencies
                    /\ b \in dependecyMap[a].dependencies
                          => opMap(job)[b].serves /\ a \in opMap(job)[b].depends_on
  BY DEF ServersGoFirst
<1>1. Valid(job) /\ dependecyMap = createDependencyMap(job)
  BY DEF FromDefinition
<1> QED BY <1>1, MapOfValid

\* For every definition a client may post: an op of the plan is in one stage, with its group
\* and in the order of the definition, no dependency leaves its group or names the op itself,
\* and servers come before what they serve (createExecutionPlan, createDependencyMap,
\* validateExecutionPlan).
THEOREM PlanIsSoundAlways == Spec => []PlanIsSound
<1>1. FromDefinition => PlanIsSound
  BY PlanIsPartition, DependenciesAreSound, ServersGoFirstHolds DEF PlanIsSound
<1> QED BY <1>1, FromDefinitionAlways, PTL

\* What TaskManager assumes of the plan it is given (PlanAssumption, there for its constants)
\* holds of the plan build() hands to start(): the ops of a job that has any are spread over the
\* stages, and depend on other ops of the job.
FitsScheduler ==
    Accepted /\ job # <<>> =>
        /\ Len(executionPlan) \in Nat \ {0}
        /\ [o \in Ids(job) |-> StageOf(o)] \in [Ids(job) -> 1..Len(executionPlan)]
        /\ [o \in Ids(job) |-> dependecyMap[o].dependencies] \in [Ids(job) -> SUBSET Ids(job)]
        /\ \A o \in Ids(job) : o \notin dependecyMap[o].dependencies

THEOREM FitsSchedulerAlways == Spec => []FitsScheduler
<1>1. FromDefinition => FitsScheduler
  <2> SUFFICES ASSUME FromDefinition, Accepted, job # <<>> PROVE FitsScheduler
    BY DEF FitsScheduler
  <2>1. /\ Valid(job) /\ executionPlan = createExecutionPlan(job)
        /\ dependecyMap = createDependencyMap(job) /\ job \in Seq(Operations)
    BY DEF FromDefinition
  <2>2. executionPlan \in Seq(Stages)
    BY <2>1, PlanBuilt DEF Built
  <2>3. DOMAIN executionPlan = 1..Len(executionPlan) /\ Len(executionPlan) \in Nat
    BY <2>2
  <2>4. ASSUME NEW o \in Ids(job) PROVE StageOf(o) \in DOMAIN executionPlan
    <3>1. PICK i \in DOMAIN job : job[i].id = o
      BY DEF Ids
    <3>2. Stage(executionPlan, job[i].id) \in DOMAIN executionPlan
      BY <2>1, PlanOfValid
    <3> QED BY <3>1, <3>2, StageIsStageOf
  <2>5. 1 \in DOMAIN job
    BY <2>1
  <2>6. DOMAIN executionPlan # {}
    BY <2>4, <2>5 DEF Ids
  <2>7. \A o \in Ids(job) : /\ dependecyMap[o].dependencies \subseteq Ids(job)
                            /\ o \notin dependecyMap[o].dependencies
    <3> SUFFICES ASSUME NEW o \in Ids(job)
                 PROVE  /\ dependecyMap[o].dependencies \subseteq Ids(job)
                        /\ o \notin dependecyMap[o].dependencies
      OBVIOUS
    <3>1. dependecyMap[o].dependencies \subseteq Ids(job)
      BY <2>1, MapOfValid
    <3>2. o \notin dependecyMap[o].dependencies
      BY DependenciesAreSound DEF DependenciesSound
    <3> QED BY <3>1, <3>2
  <2> QED BY <2>3, <2>4, <2>6, <2>7 DEF FitsScheduler
<1> QED BY <1>1, FromDefinitionAlways, PTL
=============================================================================
