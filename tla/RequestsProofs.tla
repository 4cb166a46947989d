----------------------------- MODULE RequestsProofs -----------------------------
(* Theorems about Requests and the BatchVerify under it, for requests, rows and  *)
(* limits of every number.                                                       *)
EXTENDS Requests, FiniteSetTheorems, SequenceTheorems, WellFoundedInduction, TLAPS

-----------------------------------------------------------------------------
(* The rows of a request *)

LEMMA NatMin ==
    ASSUME NEW T, T \subseteq Nat, T # {}
    PROVE  \E x \in T : \A y \in T : x <= y
    <1> DEFINE less == OpToRel(<, Nat)
    <1>1. IsWellFoundedOn(less, Nat)
        BY NatLessThanWellFounded
    <1>2. \A x, y \in Nat : x < y => <<x, y>> \in less
        BY DEF OpToRel
    <1> HIDE DEF less
    <1>3. PICK x \in T : \A y \in T : ~(<<y, x>> \in less)
        BY <1>1, WFMin
    <1>4. \A y \in T : ~(y < x)
        BY <1>2, <1>3
    <1>5. QED
        BY <1>4

LEMMA RowsTyped ==
    ASSUME NEW r \in Request
    PROVE  /\ RowIds(r) = 1 .. Len(RowsOf[r]) /\ Len(RowsOf[r]) \in Nat \ {0}
           /\ \A i \in RowIds(r) : RowsOf[r][i].email \in Email
    <1>1. RowsOf[r] \in Seq([email : Email, opts : Options]) /\ RowsOf[r] # <<>>
        BY BatchAssumption DEF Rows
    <1>2. DOMAIN RowsOf[r] = 1 .. Len(RowsOf[r]) /\ Len(RowsOf[r]) \in Nat \ {0}
        BY <1>1, LenProperties, EmptySeq
    <1>3. \A i \in 1 .. Len(RowsOf[r]) : RowsOf[r][i] \in [email : Email, opts : Options]
        BY <1>1, ElementOfSeq
    <1>4. QED
        BY <1>2, <1>3 DEF RowIds

LEMMA EmailsTyped ==
    ASSUME NEW r \in Request
    PROVE  Emails(r) \subseteq Email /\ Emails(r) # {}
    <1>1. 1 \in RowIds(r)
        BY RowsTyped
    <1>2. QED
        BY <1>1, RowsTyped DEF Emails

\* An address has a first row, and FirstRow is it.
LEMMA FirstRowIs ==
    ASSUME NEW r \in Request, NEW e \in Emails(r)
    PROVE  /\ FirstRow[r][e] \in RowIds(r)
           /\ IsRowOf(r, FirstRow[r][e], e)
           /\ \A j \in RowIds(r) : IsRowOf(r, j, e) => FirstRow[r][e] <= j
    <1> DEFINE mine == {i \in RowIds(r) : IsRowOf(r, i, e)}
    <1>1. mine \subseteq Nat /\ mine # {}
        BY RowsTyped DEF Emails, IsRowOf
    <1>2. PICK m \in mine : \A j \in mine : m <= j
        BY <1>1, NatMin
    <1>3. \A j \in 1 .. m - 1 : j \in RowIds(r) /\ ~(m <= j)
        BY <1>1, RowsTyped
    <1>4. m \in RowIds(r) /\ IsRowOf(r, m, e) /\ \A j \in 1 .. m - 1 : ~IsRowOf(r, j, e)
        BY <1>2, <1>3
    <1>5. FirstRow[r][e] = CHOOSE i \in RowIds(r) : IsRowOf(r, i, e) /\ \A j \in 1 .. i - 1 : ~IsRowOf(r, j, e)
        BY DEF FirstRow
    <1>6. /\ FirstRow[r][e] \in RowIds(r) /\ IsRowOf(r, FirstRow[r][e], e)
          /\ \A j \in 1 .. FirstRow[r][e] - 1 : ~IsRowOf(r, j, e)
        BY <1>4, <1>5
    <1>7. \A j \in RowIds(r) : j \in 1 .. FirstRow[r][e] - 1 \/ FirstRow[r][e] <= j
        BY <1>6, RowsTyped
    <1>8. QED
        BY <1>6, <1>7

LEMMA GroupRowTyped ==
    ASSUME NEW r \in Request, NEW e \in Emails(r)
    PROVE  GroupRow[r][DomainOf[e]] \in Nat
    <1> DEFINE d == DomainOf[e]
               firsts == {FirstRow[r][f] : f \in InGroup(r, d)}
    <1>1. \A f \in InGroup(r, d) : f \in Emails(r)
        BY DEF InGroup
    <1>2. e \in InGroup(r, d) /\ d \in Domains[r]
        BY DEF InGroup, Domains
    <1>3. firsts \subseteq Nat /\ firsts # {}
        BY <1>1, <1>2, FirstRowIs, RowsTyped
    <1>4. PICK m \in firsts : \A n \in firsts : m <= n
        BY <1>3, NatMin
    <1>5. \A f \in InGroup(r, d) : m <= FirstRow[r][f]
        BY <1>4
    <1>6. GroupRow[r][d] = CHOOSE i \in firsts : \A f \in InGroup(r, d) : i <= FirstRow[r][f]
        BY <1>2 DEF GroupRow
    <1> HIDE DEF firsts, d
    <1>7. GroupRow[r][d] \in firsts
        BY <1>4, <1>5, <1>6
    <1>8. QED
        BY <1>3, <1>7 DEF d

\* No task comes before itself.
LEMMA SoonerIrreflexive ==
    ASSUME NEW r \in Request, NEW e \in Emails(r)
    PROVE  ~Sooner(r, e, e)
    <1>1. FirstRow[r][e] \in Nat
        BY FirstRowIs, RowsTyped
    <1>2. QED
        BY <1>1, GroupRowTyped DEF Sooner

-----------------------------------------------------------------------------
(* The line of the process *)

Entry == [r : Request, e : Email]
Items == [Request -> [Email -> ItemState]]

Queued(x) == \E i \in DOMAIN line : line[i] = x

\* The line, told without pairs: who is in it, and that it repeats nobody.
LineOK ==
    /\ line \in Seq(Entry)
    /\ \A x \in Entry : Queued(x) <=> item[x.r][x.e] = "queued"
    /\ \A i, j \in DOMAIN line : line[i] = line[j] => i = j

RunningOK == IsFiniteSet(RunningItems) /\ Cardinality(RunningItems) <= MaxConcurrency

\* What Advance does: the tasks it starts, each once.
Advanced(r, st, rest, starts, order) ==
    /\ \A e \in starts : st[e] = "waiting"
    /\ item' = [item EXCEPT ![r] = [e \in Email |-> IF e \in starts THEN "queued" ELSE st[e]]]
    /\ line' = rest \o order
    /\ \A i \in DOMAIN order : order[i].r = r /\ order[i].e \in starts
    /\ \A e \in starts : \E i \in DOMAIN order : order[i] = [r |-> r, e |-> e]
    /\ \A i, j \in DOMAIN order : order[i] = order[j] => i = j

LEMMA AdvanceIs ==
    ASSUME NEW r \in Request, NEW st \in [Email -> ItemState], NEW rest, Advance(r, st, rest)
    PROVE  \E starts \in SUBSET Email, order \in Seq(Entry) : Advanced(r, st, rest, starts, order)
    <1> DEFINE starts == {e \in Emails(r) : st[e] = "waiting" /\ MayStart(st, r, e)}
    <1>1. PICK task \in [1 .. Cardinality(starts) -> starts] :
              /\ Range(task) = starts
              /\ \A i, j \in DOMAIN task : i < j => Sooner(r, task[i], task[j])
              /\ line' = rest \o [i \in DOMAIN task |-> [r |-> r, e |-> task[i]]]
        BY DEF Advance
    <1>2. item' = [item EXCEPT ![r] = [e \in Email |-> IF e \in starts THEN "queued" ELSE st[e]]]
        BY DEF Advance
    <1>3. \A e \in starts : st[e] = "waiting" /\ e \in Emails(r) /\ e \in Email
        BY EmailsTyped
    <1>4. IsFiniteSet(starts) /\ Cardinality(starts) \in Nat
        <2>1. IsFiniteSet(RowIds(r))
            <3>1. 1 \in Int /\ Len(RowsOf[r]) \in Int
                BY RowsTyped
            <3>2. QED
                BY <3>1, RowsTyped, FS_Interval
        <2>2. IsFiniteSet(Emails(r))
            <3> DEFINE email == [i \in RowIds(r) |-> RowsOf[r][i].email]
            <3>1. email \in Surjection(RowIds(r), Emails(r))
                BY DEF Surjection, Emails
            <3> HIDE DEF email
            <3>2. QED
                BY <2>1, <3>1, FS_Surjection
        <2>3. starts \subseteq Emails(r)
            OBVIOUS
        <2>4. QED
            BY <2>2, <2>3, FS_Subset, FS_CardinalityType
    <1> HIDE DEF starts
    <1> DEFINE n == Cardinality(starts)
               order == [i \in 1 .. n |-> [r |-> r, e |-> task[i]]]
    <1>5. DOMAIN task = 1 .. n /\ \A i \in 1 .. n : task[i] \in starts
        BY <1>1
    <1>6. order \in Seq(Entry) /\ DOMAIN order = 1 .. n
        <2>1. n \in Nat
            BY <1>4
        <2>2. \A i \in 1 .. n : [r |-> r, e |-> task[i]] \in Entry
            BY <1>3, <1>5 DEF Entry
        <2> HIDE DEF n
        <2>3. QED
            BY <2>1, <2>2
    <1>7. \A e \in starts : \E i \in 1 .. n : task[i] = e
        BY <1>1, <1>5 DEF Range
    <1>8. \A i, j \in 1 .. n : task[i] = task[j] => i = j
        <2> SUFFICES ASSUME NEW i \in 1 .. n, NEW j \in 1 .. n, task[i] = task[j], i # j
                     PROVE  FALSE
            OBVIOUS
        <2>1. i \in Int /\ j \in Int
            BY <1>4
        <2>2. i < j \/ j < i
            BY <2>1
        <2>3. task[i] \in Emails(r) /\ task[j] \in Emails(r)
            BY <1>3, <1>5
        <2>4. Sooner(r, task[i], task[j]) \/ Sooner(r, task[j], task[i])
            BY <1>1, <1>5, <2>2
        <2>5. Sooner(r, task[i], task[i])
            BY <2>4
        <2>6. QED
            BY <2>3, <2>5, SoonerIrreflexive
    <1>9. line' = rest \o order
        BY <1>1, <1>5
    <1>10. \A i \in 1 .. n : order[i] = [r |-> r, e |-> task[i]] /\ order[i].r = r /\ order[i].e = task[i]
        OBVIOUS
    <1> HIDE DEF order, n
    <1>11. /\ \A i \in DOMAIN order : order[i].r = r /\ order[i].e \in starts
           /\ \A e \in starts : \E i \in DOMAIN order : order[i] = [r |-> r, e |-> e]
           /\ \A i, j \in DOMAIN order : order[i] = order[j] => i = j
        <2>1. \A i \in 1 .. n : order[i].r = r /\ order[i].e = task[i]
            BY <1>10
        <2>2. \A i, j \in 1 .. n : order[i] = order[j] => task[i] = task[j]
            BY <2>1
        <2>3. \A i, j \in 1 .. n : order[i] = order[j] => i = j
            BY <1>8, <2>2
        <2>4. \A e \in starts : \E i \in 1 .. n : order[i] = [r |-> r, e |-> e]
            BY <1>7, <1>10
        <2>5. QED
            BY <1>5, <1>6, <2>1, <2>3, <2>4
    <1>12. starts \in SUBSET Email
        BY <1>3
    <1>13. QED
        BY <1>2, <1>3, <1>6, <1>9, <1>11, <1>12 DEF Advanced

\* What Advance leaves as it was: the other requests, and what is not waiting.
LEMMA AdvanceKeeps ==
    ASSUME item \in Items, NEW r \in Request, NEW st \in [Email -> ItemState], NEW rest, Advance(r, st, rest)
    PROVE  /\ item' \in Items
           /\ \A q \in Request : q # r => item'[q] = item[q]
           /\ \A e \in Email : \/ item'[r][e] = st[e]
                               \/ st[e] = "waiting" /\ item'[r][e] = "queued"
    <1>0. PICK starts \in SUBSET Email, order \in Seq(Entry) : Advanced(r, st, rest, starts, order)
        BY AdvanceIs
    <1>1. /\ \A e \in starts : st[e] = "waiting"
          /\ item' = [item EXCEPT ![r] = [e \in Email |-> IF e \in starts THEN "queued" ELSE st[e]]]
        BY <1>0 DEF Advanced
    <1> DEFINE now == [e \in Email |-> IF e \in starts THEN "queued" ELSE st[e]]
    <1>2. now \in [Email -> ItemState]
        BY DEF ItemState, Unfinished
    <1>3. \A e \in Email : now[e] = st[e] \/ (st[e] = "waiting" /\ now[e] = "queued")
        BY <1>1
    <1>4. item' = [item EXCEPT ![r] = now]
        BY <1>1
    <1> HIDE DEF now
    <1>5. item'[r] = now /\ \A q \in Request : q # r => item'[q] = item[q]
        BY <1>4 DEF Items
    <1>6. item' \in Items
        BY <1>2, <1>4 DEF Items
    <1>7. \A e \in Email : item'[r][e] = st[e] \/ (st[e] = "waiting" /\ item'[r][e] = "queued")
        <2> SUFFICES ASSUME NEW e \in Email
                     PROVE  item'[r][e] = st[e] \/ (st[e] = "waiting" /\ item'[r][e] = "queued")
            OBVIOUS
        <2>1. item'[r][e] = now[e]
            BY <1>5
        <2>2. QED
            BY <1>3, <2>1
    <1>8. QED
        BY <1>5, <1>6, <1>7

\* Whom the new line holds.
LEMMA ConcatQueued ==
    ASSUME line \in Seq(Entry), NEW order \in Seq(Entry), line' = line \o order
    PROVE  /\ line' \in Seq(Entry)
           /\ DOMAIN line = 1 .. Len(line) /\ DOMAIN order = 1 .. Len(order)
           /\ DOMAIN line' = 1 .. Len(line) + Len(order)
           /\ \A i \in DOMAIN line : i \in DOMAIN line' /\ line'[i] = line[i]
           /\ \A i \in DOMAIN order : Len(line) + i \in DOMAIN line' /\ line'[Len(line) + i] = order[i]
           /\ \A i \in DOMAIN line' : i \in DOMAIN line \/ i - Len(line) \in DOMAIN order
    <1>1. /\ Len(line) \in Nat /\ Len(order) \in Nat
          /\ DOMAIN line = 1 .. Len(line) /\ DOMAIN order = 1 .. Len(order)
        BY LenProperties
    <1>2. /\ line \o order \in Seq(Entry)
          /\ Len(line \o order) = Len(line) + Len(order)
          /\ \A i \in 1 .. Len(line) + Len(order) :
                 (line \o order)[i] = IF i <= Len(line) THEN line[i] ELSE order[i - Len(line)]
        BY ConcatProperties
    <1>3. DOMAIN line' = 1 .. Len(line) + Len(order)
        BY <1>2, LenProperties
    <1>4. \A i \in 1 .. Len(line) + Len(order) :
              line'[i] = IF i <= Len(line) THEN line[i] ELSE order[i - Len(line)]
        BY <1>2
    <1>5. \A a, b \in Nat :
              /\ \A i \in 1 .. a : i \in 1 .. a + b /\ i <= a
              /\ \A i \in 1 .. b : a + i \in 1 .. a + b /\ ~(a + i <= a) /\ (a + i) - a = i
              /\ \A i \in 1 .. a + b : i \in 1 .. a \/ i - a \in 1 .. b
        OBVIOUS
    <1>6. /\ \A i \in 1 .. Len(line) : i \in 1 .. Len(line) + Len(order) /\ i <= Len(line)
          /\ \A i \in 1 .. Len(order) : /\ Len(line) + i \in 1 .. Len(line) + Len(order)
                                        /\ ~(Len(line) + i <= Len(line)) /\ (Len(line) + i) - Len(line) = i
          /\ \A i \in 1 .. Len(line) + Len(order) : i \in 1 .. Len(line) \/ i - Len(line) \in 1 .. Len(order)
        BY <1>1, <1>5
    <1>7. QED
        BY <1>1, <1>2, <1>3, <1>4, <1>6

LEMMA AdvanceLine ==
    ASSUME item \in Items, LineOK, NEW r \in Request, NEW st \in [Email -> ItemState],
           \A e \in Email : st[e] = "queued" <=> item[r][e] = "queued",
           Advance(r, st, line)
    PROVE  LineOK'
    <1>0. PICK starts \in SUBSET Email, order \in Seq(Entry) : Advanced(r, st, line, starts, order)
        BY AdvanceIs
    <1>1. /\ \A e \in starts : st[e] = "waiting"
          /\ item' = [item EXCEPT ![r] = [e \in Email |-> IF e \in starts THEN "queued" ELSE st[e]]]
          /\ line' = line \o order
          /\ \A i \in DOMAIN order : order[i].r = r /\ order[i].e \in starts
          /\ \A e \in starts : \E i \in DOMAIN order : order[i] = [r |-> r, e |-> e]
          /\ \A i, j \in DOMAIN order : order[i] = order[j] => i = j
        BY <1>0 DEF Advanced
    <1>2. /\ line \in Seq(Entry)
          /\ \A x \in Entry : Queued(x) <=> item[x.r][x.e] = "queued"
          /\ \A i, j \in DOMAIN line : line[i] = line[j] => i = j
        BY DEF LineOK
    <1>3. /\ line' \in Seq(Entry)
          /\ DOMAIN line = 1 .. Len(line) /\ DOMAIN order = 1 .. Len(order)
          /\ \A i \in DOMAIN line : i \in DOMAIN line' /\ line'[i] = line[i]
          /\ \A i \in DOMAIN order : Len(line) + i \in DOMAIN line' /\ line'[Len(line) + i] = order[i]
          /\ \A i \in DOMAIN line' : i \in DOMAIN line \/ i - Len(line) \in DOMAIN order
          /\ DOMAIN line' = 1 .. Len(line) + Len(order)
        BY <1>1, <1>2, ConcatQueued
    <1>4. /\ item'[r] = [e \in Email |-> IF e \in starts THEN "queued" ELSE st[e]]
          /\ \A q \in Request : q # r => item'[q] = item[q]
        BY <1>1 DEF Items
    <1>5. \A e \in Email : item'[r][e] = "queued" <=> (e \in starts \/ item[r][e] = "queued")
        BY <1>4
    <1>6. Len(line) \in Nat /\ Len(order) \in Nat
        BY <1>2
    <1>7. \A i \in DOMAIN line' : i \in DOMAIN line \/ (i - Len(line) \in DOMAIN order /\ line'[i] = order[i - Len(line)])
        <2> SUFFICES ASSUME NEW i \in DOMAIN line', i - Len(line) \in DOMAIN order
                     PROVE  line'[i] = order[i - Len(line)]
            BY <1>3
        <2>1. Len(line) + (i - Len(line)) = i
            BY <1>3, <1>6
        <2>2. QED
            BY <1>3, <2>1
    \* A task that starts was not in line.
    <1>8. \A i \in DOMAIN line, j \in DOMAIN order : line[i] # order[j]
        <2> SUFFICES ASSUME NEW i \in DOMAIN line, NEW j \in DOMAIN order, line[i] = order[j]
                     PROVE  FALSE
            OBVIOUS
        <2>1. order[j] \in Entry
            BY <1>3, ElementOfSeq
        <2>2. order[j].r = r /\ st[order[j].e] = "waiting"
            BY <1>1
        <2>3. Queued(order[j])
            BY DEF Queued
        <2>4. item[r][order[j].e] = "queued" /\ order[j].e \in Email
            BY <1>2, <2>1, <2>2, <2>3 DEF Entry
        <2>5. QED
            BY <2>2, <2>4
    <1>9. \A x \in Entry : Queued(x)' <=> item'[x.r][x.e] = "queued"
        <2> SUFFICES ASSUME NEW x \in Entry
                     PROVE  Queued(x)' <=> item'[x.r][x.e] = "queued"
            OBVIOUS
        <2>0. x = [r |-> x.r, e |-> x.e] /\ x.r \in Request /\ x.e \in Email
            BY DEF Entry
        <2>1. ASSUME Queued(x)
              PROVE  Queued(x)'
            BY <1>3, <2>1 DEF Queued
        <2>2. ASSUME x.r = r, x.e \in starts
              PROVE  Queued(x)'
            <3>1. PICK i \in DOMAIN order : order[i] = [r |-> r, e |-> x.e]
                BY <1>1, <2>2
            <3>2. line'[Len(line) + i] = x /\ Len(line) + i \in DOMAIN line'
                BY <1>3, <2>0, <2>2, <3>1
            <3>3. QED
                BY <3>2 DEF Queued
        <2>3. ASSUME Queued(x)'
              PROVE  Queued(x) \/ (x.r = r /\ x.e \in starts)
            <3>1. PICK i \in DOMAIN line' : line'[i] = x
                BY <2>3 DEF Queued
            <3>2. CASE i \in DOMAIN line
                BY <1>3, <3>1, <3>2 DEF Queued
            <3>3. CASE i - Len(line) \in DOMAIN order /\ line'[i] = order[i - Len(line)]
                BY <1>1, <3>1, <3>3
            <3>4. QED
                BY <1>7, <3>2, <3>3
        <2>4. Queued(x)' <=> Queued(x) \/ (x.r = r /\ x.e \in starts)
            BY <2>1, <2>2, <2>3
        <2>5. CASE x.r = r
            BY <1>2, <1>5, <2>0, <2>4, <2>5
        <2>6. CASE x.r # r
            BY <1>2, <1>4, <2>0, <2>4, <2>6
        <2>7. QED
            BY <2>5, <2>6
    <1>10. \A i, j \in DOMAIN line' : line'[i] = line'[j] => i = j
        <2> SUFFICES ASSUME NEW i \in DOMAIN line', NEW j \in DOMAIN line', line'[i] = line'[j]
                     PROVE  i = j
            OBVIOUS
        <2>1. CASE i \in DOMAIN line /\ j \in DOMAIN line
            BY <1>2, <1>3, <2>1
        <2>2. CASE i \in DOMAIN line /\ j - Len(line) \in DOMAIN order /\ line'[j] = order[j - Len(line)]
            BY <1>3, <1>8, <2>2
        <2>3. CASE j \in DOMAIN line /\ i - Len(line) \in DOMAIN order /\ line'[i] = order[i - Len(line)]
            BY <1>3, <1>8, <2>3
        <2>4. CASE /\ i - Len(line) \in DOMAIN order /\ line'[i] = order[i - Len(line)]
                   /\ j - Len(line) \in DOMAIN order /\ line'[j] = order[j - Len(line)]
            <3>1. i - Len(line) = j - Len(line)
                BY <1>1, <2>4
            <3>2. i \in Int /\ j \in Int
                BY <1>3, <1>6
            <3>3. QED
                BY <1>6, <3>1, <3>2
        <2>5. QED
            BY <1>7, <2>1, <2>2, <2>3, <2>4
    <1>11. QED
        BY <1>3, <1>9, <1>10 DEF LineOK

\* The limiter of the process takes the head of its line.
LEMMA StartIs ==
    ASSUME item \in Items, LineOK, Start
    PROVE  \E x \in Entry :
              /\ x = line[1] /\ 1 \in DOMAIN line /\ item[x.r][x.e] = "queued"
              /\ item' = [item EXCEPT ![x.r][x.e] = "running"]
              /\ line' = Tail(line)
    <1>1. line # <<>> /\ line \in Seq(Entry)
        BY DEF LineOK, Start
    <1>2. Head(line) = line[1] /\ 1 \in DOMAIN line /\ line[1] \in Entry
        BY <1>1
    <1>3. Queued(line[1])
        BY <1>2 DEF Queued
    <1>4. item[line[1].r][line[1].e] = "queued"
        BY <1>2, <1>3 DEF LineOK
    <1>5. QED
        BY <1>2, <1>4 DEF Start

LEMMA StartLine ==
    ASSUME item \in Items, LineOK, Start
    PROVE  item' \in Items /\ LineOK'
    <1>1. PICK x \in Entry :
              /\ x = line[1] /\ 1 \in DOMAIN line /\ item[x.r][x.e] = "queued"
              /\ item' = [item EXCEPT ![x.r][x.e] = "running"]
              /\ line' = Tail(line)
        BY StartIs
    <1>2. x.r \in Request /\ x.e \in Email
        BY DEF Entry
    <1>3. item' \in Items
        BY <1>1, <1>2 DEF Items, ItemState, Unfinished
    <1>4. \A q \in Request, e \in Email :
              item'[q][e] = IF q = x.r /\ e = x.e THEN "running" ELSE item[q][e]
        BY <1>1, <1>2 DEF Items
    <1>5. /\ line \in Seq(Entry) /\ line # <<>> /\ DOMAIN line = 1 .. Len(line) /\ Len(line) \in Nat
          /\ \A i, j \in DOMAIN line : line[i] = line[j] => i = j
        BY <1>1, LenProperties DEF LineOK, Start
    <1>6. /\ line' \in Seq(Entry) /\ DOMAIN line' = 1 .. Len(line) - 1
          /\ \A i \in 1 .. Len(line) - 1 : line'[i] = line[i + 1]
        <2>1. Tail(line) \in Seq(Entry) /\ Len(Tail(line)) = Len(line) - 1
              /\ \A i \in 1 .. Len(Tail(line)) : Tail(line)[i] = line[i + 1]
            BY <1>5, HeadTailProperties
        <2>2. DOMAIN Tail(line) = 1 .. Len(line) - 1
            BY <2>1, LenProperties
        <2>3. QED
            BY <1>1, <2>1, <2>2
    <1>7. \A i \in 1 .. Len(line) - 1 : i + 1 \in DOMAIN line /\ i + 1 # 1
        BY <1>5
    <1>8. \A i \in 2 .. Len(line) : i - 1 \in DOMAIN line' /\ line'[i - 1] = line[i]
        BY <1>5, <1>6
    <1>9. \A y \in Entry : Queued(y)' <=> Queued(y) /\ y # x
        <2>1. ASSUME NEW y \in Entry, Queued(y)'
              PROVE  Queued(y) /\ y # x
            <3>1. PICK i \in 1 .. Len(line) - 1 : line[i + 1] = y
                BY <1>6, <2>1 DEF Queued
            <3>2. i + 1 \in DOMAIN line /\ i + 1 # 1
                BY <1>7
            <3>3. QED
                BY <1>1, <1>5, <3>1, <3>2 DEF Queued
        <2>2. ASSUME NEW y \in Entry, Queued(y), y # x
              PROVE  Queued(y)'
            <3>1. PICK i \in DOMAIN line : line[i] = y
                BY <2>2 DEF Queued
            <3>2. i \in 2 .. Len(line)
                BY <1>1, <1>5, <2>2, <3>1
            <3>3. QED
                BY <1>8, <3>1, <3>2 DEF Queued
        <2>3. QED
            BY <2>1, <2>2
    <1>10. \A y \in Entry : Queued(y)' <=> item'[y.r][y.e] = "queued"
        <2> SUFFICES ASSUME NEW y \in Entry
                     PROVE  Queued(y)' <=> item'[y.r][y.e] = "queued"
            OBVIOUS
        <2>1. y.r \in Request /\ y.e \in Email /\ (y = x <=> y.r = x.r /\ y.e = x.e)
            BY DEF Entry
        <2>2. Queued(y) <=> item[y.r][y.e] = "queued"
            BY DEF LineOK
        <2>3. QED
            BY <1>4, <1>9, <2>1, <2>2
    <1>11. \A i, j \in DOMAIN line' : line'[i] = line'[j] => i = j
        <2> SUFFICES ASSUME NEW i \in 1 .. Len(line) - 1, NEW j \in 1 .. Len(line) - 1, line[i + 1] = line[j + 1]
                     PROVE  i = j
            BY <1>6
        <2>1. i + 1 = j + 1
            BY <1>5, <1>7
        <2>2. QED
            BY <1>5, <2>1
    <1>12. QED
        BY <1>3, <1>6, <1>10, <1>11 DEF LineOK

\* Advance starts nothing in the limiter of the process.
LEMMA AdvanceRunning ==
    ASSUME item \in Items, RunningOK, NEW r \in Request, NEW st \in [Email -> ItemState], NEW rest,
           \A e \in Email : st[e] = "running" => item[r][e] = "running",
           Advance(r, st, rest)
    PROVE  RunningOK'
    <1>1. \A q \in Request : q # r => item'[q] = item[q]
        BY AdvanceKeeps
    <1>2. \A e \in Email : item'[r][e] = "running" => st[e] = "running"
        BY AdvanceKeeps
    <1>3. RunningItems' \subseteq RunningItems
        <2> SUFFICES ASSUME NEW x \in Request \X Email, item'[x[1]][x[2]] = "running"
                     PROVE  item[x[1]][x[2]] = "running"
            BY DEF RunningItems
        <2>1. x[1] \in Request /\ x[2] \in Email
            OBVIOUS
        <2>2. QED
            BY <1>1, <1>2, <2>1
    <1>4. IsFiniteSet(RunningItems) /\ Cardinality(RunningItems) <= MaxConcurrency
        BY DEF RunningOK
    <1>5. /\ IsFiniteSet(RunningItems') /\ Cardinality(RunningItems') <= Cardinality(RunningItems)
          /\ Cardinality(RunningItems') \in Nat /\ Cardinality(RunningItems) \in Nat
        BY <1>3, <1>4, FS_Subset, FS_CardinalityType
    <1>6. Cardinality(RunningItems') <= MaxConcurrency
        BY <1>4, <1>5, BatchAssumption
    <1>7. QED
        BY <1>5, <1>6 DEF RunningOK

LEMMA StartRunning ==
    ASSUME item \in Items, LineOK, RunningOK, Start
    PROVE  RunningOK'
    <1>1. PICK x \in Entry : item' = [item EXCEPT ![x.r][x.e] = "running"]
        BY StartIs
    <1>2. x.r \in Request /\ x.e \in Email
        BY DEF Entry
    <1>3. \A q \in Request, e \in Email :
              item'[q][e] = IF q = x.r /\ e = x.e THEN "running" ELSE item[q][e]
        BY <1>1, <1>2 DEF Items
    <1>4. RunningItems' \subseteq RunningItems \cup {<<x.r, x.e>>}
        <2> SUFFICES ASSUME NEW y \in Request \X Email, item'[y[1]][y[2]] = "running", y # <<x.r, x.e>>
                     PROVE  item[y[1]][y[2]] = "running"
            BY DEF RunningItems
        <2>1. y[1] \in Request /\ y[2] \in Email /\ ~(y[1] = x.r /\ y[2] = x.e)
            OBVIOUS
        <2>2. QED
            BY <1>3, <2>1
    <1>5. IsFiniteSet(RunningItems) /\ Cardinality(RunningItems) < MaxConcurrency
        BY DEF RunningOK, Start
    <1>6. /\ IsFiniteSet(RunningItems \cup {<<x.r, x.e>>})
          /\ \/ Cardinality(RunningItems \cup {<<x.r, x.e>>}) = Cardinality(RunningItems)
             \/ Cardinality(RunningItems \cup {<<x.r, x.e>>}) = Cardinality(RunningItems) + 1
        BY <1>5, FS_AddElement
    <1>7. /\ IsFiniteSet(RunningItems')
          /\ Cardinality(RunningItems') <= Cardinality(RunningItems \cup {<<x.r, x.e>>})
        BY <1>4, <1>6, FS_Subset
    <1>8. Cardinality(RunningItems') \in Nat /\ Cardinality(RunningItems) \in Nat
        BY <1>5, <1>7, FS_CardinalityType
    <1>9. Cardinality(RunningItems') <= MaxConcurrency
        BY <1>5, <1>6, <1>7, <1>8, BatchAssumption
    <1>10. QED
        BY <1>7, <1>9 DEF RunningOK

-----------------------------------------------------------------------------
(* The steps of a batch *)

BatchOK == item \in Items /\ LineOK /\ RunningOK

LEMMA NothingRuns ==
    ASSUME item = [r \in Request |-> [e \in Email |-> "none"]], line = <<>>
    PROVE  BatchOK
    <1>1. item \in Items
        BY DEF Items, ItemState
    <1>2. \A r \in Request, e \in Email : item[r][e] = "none"
        OBVIOUS
    <1>3. LineOK
        BY <1>2 DEF LineOK, Queued, Entry
    <1>4. RunningItems = {}
        BY <1>2 DEF RunningItems
    <1>5. RunningOK
        BY <1>4, FS_EmptySet, BatchAssumption DEF RunningOK
    <1>6. QED
        BY <1>1, <1>3, <1>5 DEF BatchOK

LEMMA BatchStill ==
    ASSUME BatchOK, UNCHANGED batchVars
    PROVE  BatchOK'
    <1>1. UNCHANGED <<item, line>>
        BY DEF batchVars
    <1>2. item' \in Items
        BY <1>1 DEF BatchOK
    <1>3. LineOK'
        BY <1>1 DEF BatchOK, LineOK, Queued
    <1>4. RunningOK'
        BY <1>1 DEF BatchOK, RunningOK, RunningItems
    <1>5. QED
        BY <1>2, <1>3, <1>4 DEF BatchOK

LEMMA AcceptIs ==
    ASSUME BatchOK, NEW r \in Request, ~Executed(r), Accept(r)
    PROVE  /\ BatchOK'
           /\ \A q \in Request : q # r => item'[q] = item[q]
           /\ \A e \in Emails(r) : item'[r][e] \in Unfinished
    <1> DEFINE st == [e \in Email |-> IF e \in Emails(r) THEN "waiting" ELSE "none"]
    <1>1. item \in Items /\ LineOK /\ RunningOK /\ \A e \in Email : item[r][e] = "none"
        BY DEF BatchOK, Executed
    <1>2. st \in [Email -> ItemState] /\ \A e \in Emails(r) : st[e] = "waiting" /\ e \in Email
        BY EmailsTyped DEF ItemState, Unfinished
    <1>3. \A e \in Email : st[e] \notin {"queued", "running"}
        OBVIOUS
    <1>4. Advance(r, st, line)
        BY DEF Accept
    <1> HIDE DEF st
    <1>5. LineOK'
        BY <1>1, <1>2, <1>3, <1>4, AdvanceLine
    <1>6. RunningOK'
        BY <1>1, <1>2, <1>3, <1>4, AdvanceRunning
    <1>7. item' \in Items /\ (\A q \in Request : q # r => item'[q] = item[q])
          /\ \A e \in Email : item'[r][e] = st[e] \/ item'[r][e] = "queued"
        BY <1>1, <1>2, <1>4, AdvanceKeeps
    <1>8. QED
        BY <1>2, <1>5, <1>6, <1>7 DEF BatchOK, Unfinished

LEMMA VerifiedIs ==
    ASSUME BatchOK, NEW r \in Request, NEW e \in Email, Verified(r, e)
    PROVE  /\ BatchOK'
           /\ \A q \in Request : q # r => item'[q] = item[q]
           /\ \A f \in Email : item[r][f] # "none" => item'[r][f] # "none"
           /\ item[r][e] = "running"
    <1> DEFINE st == [item[r] EXCEPT ![e] = "done"]
    <1>1. item \in Items /\ LineOK /\ RunningOK /\ item[r] \in [Email -> ItemState]
        BY DEF BatchOK, Items
    <1>2. st \in [Email -> ItemState]
        BY <1>1 DEF ItemState
    <1>3. item[r][e] = "running" /\ Advance(r, st, line)
        BY DEF Verified
    <1>4. \A f \in Email : st[f] = IF f = e THEN "done" ELSE item[r][f]
        BY <1>1
    <1> HIDE DEF st
    <1>5. \A f \in Email : st[f] = "queued" <=> item[r][f] = "queued"
        BY <1>3, <1>4
    <1>6. \A f \in Email : st[f] = "running" => item[r][f] = "running"
        BY <1>4
    <1>7. LineOK'
        BY <1>1, <1>2, <1>3, <1>5, AdvanceLine
    <1>8. RunningOK'
        BY <1>1, <1>2, <1>3, <1>6, AdvanceRunning
    <1>9. item' \in Items /\ (\A q \in Request : q # r => item'[q] = item[q])
          /\ \A f \in Email : item'[r][f] = st[f] \/ item'[r][f] = "queued"
        BY <1>1, <1>2, <1>3, AdvanceKeeps
    <1>10. \A f \in Email : item[r][f] # "none" => item'[r][f] # "none"
        BY <1>4, <1>9
    <1>11. QED
        BY <1>3, <1>7, <1>8, <1>9, <1>10 DEF BatchOK

LEMMA StartKeeps ==
    ASSUME BatchOK, Start
    PROVE  /\ BatchOK'
           /\ \A q \in Request, f \in Email :
                  item'[q][f] = item[q][f] \/ (item[q][f] = "queued" /\ item'[q][f] = "running")
    <1>1. item \in Items /\ LineOK /\ RunningOK
        BY DEF BatchOK
    <1>2. BatchOK'
        BY <1>1, StartLine, StartRunning DEF BatchOK
    <1>3. PICK x \in Entry : item[x.r][x.e] = "queued" /\ item' = [item EXCEPT ![x.r][x.e] = "running"]
        BY <1>1, StartIs
    <1>4. QED
        BY <1>1, <1>2, <1>3 DEF Entry, Items

-----------------------------------------------------------------------------
(* A request and its verifications *)

\* Where the handler of a request is says what became of its verifications.
RequestOK(r) ==
    /\ phase[r] \in Phase
    /\ phase[r] = "executing" <=> \E e \in Email : item[r][e] \in Unfinished
    /\ Executed(r) => phase[r] \in {"executing", "storing", "answered"}
    /\ phase[r] = "executing" => \A e \in Emails(r) : item[r][e] # "none"
    /\ phase[r] = "storing" => \A e \in Emails(r) : item[r][e] = "done"
    /\ phase[r] \in {"looking", "storing"} => HasKey(r)

WorkInv ==
    /\ BatchOK
    /\ phase \in [Request -> Phase]
    /\ \A r \in Request : RequestOK(r)

LEMMA RequestStill ==
    ASSUME NEW r \in Request, RequestOK(r), phase'[r] = phase[r], item'[r] = item[r]
    PROVE  RequestOK(r)'
    BY DEF RequestOK, Executed

\* A request goes from one phase without verifications to another.
LEMMA IdleMove ==
    ASSUME NEW r \in Request, RequestOK(r), item'[r] = item[r],
           phase[r] # "executing", phase'[r] \in Phase \ {"executing", "storing"},
           Executed(r) => phase'[r] = "answered",
           phase'[r] = "looking" => HasKey(r)
    PROVE  RequestOK(r)'
    BY DEF RequestOK, Executed

LEMMA GotoIs ==
    ASSUME phase \in [Request -> Phase], NEW r \in Request, NEW where \in Phase, Goto(r, where)
    PROVE  /\ phase' \in [Request -> Phase] /\ phase'[r] = where
           /\ \A q \in Request : q # r => phase'[q] = phase[q]
    BY DEF Goto

LEMMA PhaseNames ==
    /\ {"new", "held", "looking", "executing", "storing", "answered", "refused", "cut"} = Phase
    /\ InFlight = {"held", "looking", "executing", "storing"}
    BY DEF Phase, InFlight

\* The handler starts to execute.
LEMMA AcceptWork ==
    ASSUME WorkInv, NEW r \in Request, phase[r] \in {"new", "looking"}, Goto(r, "executing"), Accept(r)
    PROVE  WorkInv'
    <1>1. BatchOK /\ phase \in [Request -> Phase] /\ \A q \in Request : RequestOK(q)
        BY DEF WorkInv
    <1>2. ~Executed(r)
        BY <1>1 DEF RequestOK
    <1>3. /\ BatchOK'
          /\ \A q \in Request : q # r => item'[q] = item[q]
          /\ \A e \in Emails(r) : item'[r][e] \in Unfinished
        BY <1>1, <1>2, AcceptIs
    <1>4. /\ phase' \in [Request -> Phase] /\ phase'[r] = "executing"
          /\ \A q \in Request : q # r => phase'[q] = phase[q]
        BY <1>1, PhaseNames, GotoIs
    <1>5. Emails(r) \subseteq Email /\ Emails(r) # {}
        BY EmailsTyped
    <1>6. RequestOK(r)'
        BY <1>3, <1>4, <1>5, PhaseNames DEF RequestOK, Unfinished
    <1>7. \A q \in Request : RequestOK(q)'
        BY <1>1, <1>3, <1>4, <1>6, RequestStill
    <1>8. QED
        BY <1>3, <1>4, <1>7 DEF WorkInv

\* The handler moves without touching the verifications.
LEMMA MoveWork ==
    ASSUME WorkInv, NEW r \in Request, NEW where \in Phase \ {"executing", "storing"}, Goto(r, where),
           UNCHANGED batchVars, phase[r] # "executing",
           phase[r] # "storing" => ~Executed(r), phase[r] = "storing" => where = "answered",
           where = "looking" => HasKey(r)
    PROVE  WorkInv'
    <1>1. BatchOK /\ phase \in [Request -> Phase] /\ \A q \in Request : RequestOK(q)
        BY DEF WorkInv
    <1>2. BatchOK' /\ item' = item
        BY <1>1, BatchStill DEF batchVars
    <1>3. /\ phase' \in [Request -> Phase] /\ phase'[r] = where
          /\ \A q \in Request : q # r => phase'[q] = phase[q]
        BY <1>1, GotoIs
    <1>4. Executed(r) => phase'[r] = "answered"
        BY <1>3
    <1>5. RequestOK(r)'
        BY <1>1, <1>2, <1>3, <1>4, IdleMove
    <1>6. \A q \in Request : RequestOK(q)'
        BY <1>1, <1>2, <1>3, <1>5, RequestStill
    <1>7. QED
        BY <1>2, <1>3, <1>6 DEF WorkInv

LEMMA HeldWork ==
    ASSUME WorkInv, NEW r \in Request, Held(r)
    PROVE  WorkInv'
    <1>1. phase[r] = "new" /\ ~Executed(r) /\ Goto(r, "held") /\ UNCHANGED batchVars
        BY DEF Held, WorkInv, RequestOK
    <1>2. QED
        BY <1>1, MoveWork, PhaseNames

LEMMA PostWork ==
    ASSUME WorkInv, NEW r \in Request, Post(r)
    PROVE  WorkInv'
    <1>1. phase[r] = "new" /\ ~Executed(r)
        BY DEF Post, WorkInv, RequestOK
    <1>2. CASE HasKey(r) /\ Goto(r, "looking") /\ UNCHANGED batchVars
        BY <1>1, <1>2, MoveWork, PhaseNames
    <1>3. CASE Goto(r, "executing") /\ Accept(r)
        BY <1>1, <1>3, AcceptWork
    <1>4. CASE Goto(r, "refused") /\ UNCHANGED batchVars
        BY <1>1, <1>4, MoveWork, PhaseNames
    <1>5. QED
        BY <1>2, <1>3, <1>4 DEF Post

LEMMA LookedUpWork ==
    ASSUME WorkInv, NEW r \in Request, LookedUp(r)
    PROVE  WorkInv'
    <1>1. phase[r] = "looking" /\ ~Executed(r)
        BY DEF LookedUp, WorkInv, RequestOK
    <1>2. CASE Goto(r, "answered") /\ UNCHANGED batchVars
        BY <1>1, <1>2, MoveWork, PhaseNames
    <1>3. CASE Goto(r, "executing") /\ Accept(r)
        BY <1>1, <1>3, AcceptWork
    <1>4. QED
        BY <1>2, <1>3 DEF LookedUp, Answer

LEMMA SavedWork ==
    ASSUME WorkInv, NEW r \in Request, Saved(r)
    PROVE  WorkInv'
    <1>1. phase[r] = "storing" /\ Goto(r, "answered") /\ UNCHANGED batchVars
        BY DEF Saved, Answer
    <1>2. QED
        BY <1>1, MoveWork, PhaseNames

\* What a verification that is over leaves of its request.
LEMMA ItemVerifiedIs ==
    ASSUME WorkInv, NEW r \in Request, NEW e \in Email, ItemVerified(r, e)
    PROVE  /\ BatchOK'
           /\ \A q \in Request : q # r => item'[q] = item[q]
           /\ phase[r] = "executing" /\ \A f \in Emails(r) : item'[r][f] # "none"
           /\ Finished(item'[r]) => \A f \in Emails(r) : item'[r][f] = "done"
    <1>1. BatchOK /\ RequestOK(r) /\ Verified(r, e)
        BY DEF WorkInv, ItemVerified
    <1>2. /\ BatchOK'
          /\ \A q \in Request : q # r => item'[q] = item[q]
          /\ \A f \in Email : item[r][f] # "none" => item'[r][f] # "none"
          /\ item[r][e] = "running"
        BY <1>1, VerifiedIs
    <1>3. phase[r] = "executing" /\ \A f \in Emails(r) : item[r][f] # "none"
        BY <1>1, <1>2 DEF RequestOK, Unfinished
    <1>4. Emails(r) \subseteq Email /\ item'[r] \in [Email -> ItemState]
        BY <1>2, EmailsTyped DEF BatchOK, Items
    <1>5. \A f \in Emails(r) : item'[r][f] # "none"
        BY <1>2, <1>3, <1>4
    <1>6. Finished(item'[r]) => \A f \in Emails(r) : item'[r][f] = "done"
        BY <1>4, <1>5 DEF ItemState, Finished
    <1>7. QED
        BY <1>2, <1>3, <1>5, <1>6

\* A verification is over; the last one of its request ends the execution.
LEMMA ItemVerifiedWork ==
    ASSUME WorkInv, NEW r \in Request, NEW e \in Email, ItemVerified(r, e)
    PROVE  WorkInv'
    <1>1. BatchOK /\ phase \in [Request -> Phase] /\ \A q \in Request : RequestOK(q)
        BY DEF WorkInv
    <1>2. /\ BatchOK'
          /\ \A q \in Request : q # r => item'[q] = item[q]
          /\ phase[r] = "executing" /\ \A f \in Emails(r) : item'[r][f] # "none"
          /\ Finished(item'[r]) => \A f \in Emails(r) : item'[r][f] = "done"
        BY ItemVerifiedIs
    <1>3. CASE ~Finished(item'[r]) /\ UNCHANGED phase
        <2>1. RequestOK(r)'
            BY <1>1, <1>2, <1>3 DEF RequestOK, Finished
        <2>2. QED
            BY <1>1, <1>2, <1>3, <2>1, RequestStill DEF WorkInv
    <1>4. CASE /\ Finished(item'[r])
               /\ (HasKey(r) /\ Goto(r, "storing")) \/ Goto(r, "answered")
        <2>1. /\ phase' \in [Request -> Phase] /\ \A q \in Request : q # r => phase'[q] = phase[q]
              /\ phase'[r] = "answered" \/ (phase'[r] = "storing" /\ HasKey(r))
            BY <1>1, <1>4, GotoIs, PhaseNames
        <2>2. \A f \in Email : item'[r][f] \notin Unfinished
            BY <1>4 DEF Finished
        <2>3. RequestOK(r)'
            BY <1>2, <1>4, <2>1, <2>2, PhaseNames DEF RequestOK
        <2>4. QED
            BY <1>1, <1>2, <2>1, <2>3, RequestStill DEF WorkInv
    <1>5. QED
        BY <1>3, <1>4 DEF ItemVerified, Answer

LEMMA StartWork ==
    ASSUME WorkInv, StartNext
    PROVE  WorkInv'
    <1>1. BatchOK /\ phase \in [Request -> Phase] /\ \A q \in Request : RequestOK(q)
        BY DEF WorkInv
    <1>2. Start /\ UNCHANGED phase
        BY DEF StartNext, requestVars
    <1>3. /\ BatchOK'
          /\ \A q \in Request, f \in Email :
                 item'[q][f] = item[q][f] \/ (item[q][f] = "queued" /\ item'[q][f] = "running")
        BY <1>1, <1>2, StartKeeps
    <1>4. \A q \in Request, f \in Email :
              /\ item'[q][f] \in Unfinished <=> item[q][f] \in Unfinished
              /\ item'[q][f] = "none" <=> item[q][f] = "none"
              /\ item[q][f] = "done" => item'[q][f] = "done"
        BY <1>3 DEF Unfinished
    <1>5. ASSUME NEW q \in Request
          PROVE  RequestOK(q)'
        <2>1. RequestOK(q) /\ Emails(q) \subseteq Email
            BY <1>1, EmailsTyped
        <2>2. QED
            BY <1>2, <1>4, <2>1 DEF RequestOK, Executed
    <1>6. QED
        BY <1>1, <1>2, <1>3, <1>5 DEF WorkInv

\* A process that ends leaves no verification behind.
LEMMA ExitWork ==
    ASSUME WorkInv, Exit
    PROVE  WorkInv'
    <1>1. /\ phase' = [r \in Request |-> IF phase[r] \in InFlight THEN "cut" ELSE phase[r]]
          /\ item' = [r \in Request |-> [e \in Email |-> "none"]] /\ line' = <<>>
        BY DEF Exit
    <1>2. phase \in [Request -> Phase]
        BY DEF WorkInv
    <1>3. \A r \in Request : phase'[r] \in Phase \ InFlight
        BY <1>1, <1>2, PhaseNames
    <1>4. \A r \in Request, e \in Email : item'[r][e] = "none"
        BY <1>1
    <1>5. BatchOK'
        <2>1. item' \in Items
            BY <1>1 DEF Items, ItemState
        <2>2. LineOK'
            BY <1>1, <1>4 DEF LineOK, Queued, Entry
        <2>3. RunningItems' = {}
            BY <1>4 DEF RunningItems
        <2>4. RunningOK'
            BY <2>3, FS_EmptySet, BatchAssumption DEF RunningOK
        <2>5. QED
            BY <2>1, <2>2, <2>4 DEF BatchOK
    <1>6. \A r \in Request : RequestOK(r)'
        BY <1>3, <1>4, PhaseNames DEF RequestOK, Executed, Unfinished
    <1>7. phase' \in [Request -> Phase]
        BY <1>1, <1>3
    <1>8. QED
        BY <1>5, <1>6, <1>7 DEF WorkInv

LEMMA WorkStep ==
    ASSUME WorkInv, [Next]_vars
    PROVE  WorkInv'
    <1>1. ASSUME UNCHANGED <<phase, batchVars>>
          PROVE  WorkInv'
        <2>1. BatchOK /\ phase \in [Request -> Phase] /\ \A q \in Request : RequestOK(q)
            BY DEF WorkInv
        <2>2. BatchOK' /\ UNCHANGED <<phase, item>>
            BY <1>1, <2>1, BatchStill DEF batchVars
        <2>3. QED
            BY <2>1, <2>2, RequestStill DEF WorkInv
    <1>2. CASE Signal \/ Stall \/ (\E s \in Store, k \in Key : Forget(s, k)) \/ UNCHANGED vars
        BY <1>1, <1>2 DEF Signal, Stall, Forget, vars, requestVars
    <1>3. CASE Drained \/ GraceOver \/ Crash
        BY <1>3, ExitWork DEF Drained, GraceOver, Crash
    <1>4. CASE \E r \in Request : Held(r) \/ Post(r) \/ Step(r)
        BY <1>4, HeldWork, PostWork, LookedUpWork, SavedWork, ItemVerifiedWork DEF Step
    <1>5. QED
        BY <1>2, <1>3, <1>4, StartWork DEF Next

LEMMA InitWork ==
    ASSUME Init
    PROVE  WorkInv
    <1>1. BatchOK
        BY NothingRuns DEF Init, BatchInit
    <1>2. /\ \A r \in Request : phase[r] = "new" /\ \A e \in Email : item[r][e] = "none"
          /\ phase \in [Request -> Phase]
        BY PhaseNames DEF Init, BatchInit
    <1>3. \A r \in Request : RequestOK(r)
        BY <1>2, PhaseNames DEF RequestOK, Executed, Unfinished
    <1>4. QED
        BY <1>1, <1>2, <1>3 DEF WorkInv

\* The rest of the types: what a step may do to the history and to the store.
RestTyped ==
    /\ redis \in RedisModes
    /\ serving \in BOOLEAN
    /\ retry \subseteq Request /\ forgotten \subseteq Key

LEMMA RestStep ==
    ASSUME RestTyped, [Next]_vars
    PROVE  RestTyped'
    <1>1. \A r \in Request : Held(r) \/ Post(r) => RestTyped'
        BY DEF Held, Post, History, RestTyped
    <1>2. \A r \in Request : Step(r) => RestTyped'
        BY DEF Step, LookedUp, ItemVerified, Saved, History, RestTyped
    <1>3. \A s \in Store, k \in Key : Forget(s, k) => RestTyped'
        BY DEF Forget, RestTyped
    <1>4. Exit => RestTyped'
        BY DEF Exit, RestTyped
    <1>5. Signal \/ Stall \/ StartNext \/ UNCHANGED vars => RestTyped'
        BY DEF Signal, Stall, StartNext, History, vars, requestVars, RestTyped
    <1>6. QED
        BY <1>1, <1>2, <1>3, <1>4, <1>5 DEF Next, Drained, GraceOver, Crash

LEMMA InitRest ==
    ASSUME Init
    PROVE  RestTyped
    BY DEF Init, RestTyped

\* TypeOK: a request executes exactly while it has verifications left, and nothing of
\* a request is left behind when it is over, whatever overlaps and however the
\* process ends.
THEOREM TypesHold == Spec => []TypeOK
    <1>1. WorkInv /\ RestTyped => TypeOK
        BY DEF WorkInv, BatchOK, RequestOK, RestTyped, TypeOK, Items
    <1>2. QED
        BY <1>1, InitWork, WorkStep, InitRest, RestStep, PTL DEF Spec

\* LineHoldsTheQueued: between the limiters of the batches and the limiter of the
\* process no verification is lost, none is started twice, and no more of them run
\* than MAX_CONCURRENCY, for any number of batches that overlap.
THEOREM NoneIsLost == Spec => []LineHoldsTheQueued
    <1>1. WorkInv => LineHoldsTheQueued
        <2> SUFFICES ASSUME WorkInv
                     PROVE  LineHoldsTheQueued
            OBVIOUS
        <2>1. LineOK /\ RunningOK
            BY DEF WorkInv, BatchOK
        <2>2. \A i \in DOMAIN line : line[i] \in Entry
            BY <2>1, LenProperties, ElementOfSeq DEF LineOK
        <2>3. ASSUME NEW i \in DOMAIN line
              PROVE  /\ <<line[i].r, line[i].e>> \in Request \X Email
                     /\ item[line[i].r][line[i].e] = "queued"
            <3>1. Queued(line[i])
                BY DEF Queued
            <3>2. QED
                BY <2>1, <2>2, <3>1 DEF LineOK, Entry
        <2>4. ASSUME NEW x \in Request \X Email, item[x[1]][x[2]] = "queued"
              PROVE  \E i \in DOMAIN line : <<line[i].r, line[i].e>> = x
            <3> DEFINE y == [r |-> x[1], e |-> x[2]]
            <3>1. y \in Entry /\ y.r = x[1] /\ y.e = x[2] /\ <<y.r, y.e>> = x
                BY DEF Entry
            <3> HIDE DEF y
            <3>2. Queued(y)
                BY <2>1, <2>4, <3>1 DEF LineOK
            <3>3. QED
                BY <3>1, <3>2 DEF Queued
        <2>5. {<<line[i].r, line[i].e>> : i \in DOMAIN line} = {x \in Request \X Email : item[x[1]][x[2]] = "queued"}
            BY <2>3, <2>4
        <2>6. QED
            BY <2>1, <2>5 DEF LineHoldsTheQueued, LineOK, RunningOK
    <1>2. QED
        BY <1>1, InitWork, WorkStep, PTL DEF Spec

-----------------------------------------------------------------------------
(* The responses *)

\* A response that may be given to r.
OwnReply(r, response) ==
    /\ DOMAIN response = RowIds(r)
    /\ \A i \in RowIds(r) :
          LET x == response[i]
              first == {j \in RowIds(r) : j <= i /\ IsRowOf(r, j, x.email)}
          IN  /\ IsRowOf(r, i, x.email)
              /\ x.result = "done"
              /\ \E j \in first : x.opts = RowsOf[r][j].opts /\ \A k \in first : j <= k
              /\ x.by = r \/ /\ HasKey(r)
                             /\ HeadOf[x.by] = HeadOf[r] /\ RowsOf[x.by] = RowsOf[r]

\* The response is made of the rows of the request, each with the options of the
\* first row of its address.
LEMMA ResponseIsOwn ==
    ASSUME NEW r \in Request, NEW st, \A e \in Emails(r) : st[e] = "done"
    PROVE  OwnReply(r, Response(r, st))
    <1> DEFINE response == Response(r, st)
    <1>1. DOMAIN response = RowIds(r)
        BY DEF Response
    <1>2. ASSUME NEW i \in RowIds(r)
          PROVE  LET x == response[i]
                     first == {j \in RowIds(r) : j <= i /\ IsRowOf(r, j, x.email)}
                 IN  /\ IsRowOf(r, i, x.email)
                     /\ x.result = "done"
                     /\ \E j \in first : x.opts = RowsOf[r][j].opts /\ \A k \in first : j <= k
                     /\ x.by = r
        <2> DEFINE e == RowsOf[r][i].email
                   first == {j \in RowIds(r) : j <= i /\ IsRowOf(r, j, e)}
        <2>1. response[i] = [email |-> e, opts |-> OptsOf(r, e), by |-> r, result |-> st[e]]
            BY DEF Response
        <2>2. e \in Emails(r) /\ IsRowOf(r, i, e)
            BY DEF Emails, IsRowOf
        <2>3. /\ FirstRow[r][e] \in RowIds(r) /\ IsRowOf(r, FirstRow[r][e], e)
              /\ \A j \in RowIds(r) : IsRowOf(r, j, e) => FirstRow[r][e] <= j
            BY <2>2, FirstRowIs
        <2>4. FirstRow[r][e] \in first /\ \A k \in first : FirstRow[r][e] <= k
            BY <2>2, <2>3
        <2>5. OptsOf(r, e) = RowsOf[r][FirstRow[r][e]].opts
            BY DEF OptsOf
        <2> HIDE DEF response
        <2>6. /\ response[i].email = e /\ response[i].opts = OptsOf(r, e)
              /\ response[i].by = r /\ response[i].result = "done"
            BY <2>1, <2>2
        <2>7. QED
            BY <2>2, <2>4, <2>5, <2>6
    <1> HIDE DEF response
    <1>3. OwnReply(r, response)
        BY <1>1, <1>2 DEF OwnReply
    <1>4. QED
        BY <1>3 DEF response

\* The key stands for the tenant, the header, the path and the body.
LEMMA SameKey ==
    ASSUME NEW q \in Request, NEW r \in Request, KeyOf(q) = KeyOf(r)
    PROVE  HeadOf[q] = HeadOf[r] /\ RowsOf[q] = RowsOf[r] /\ (HasKey(q) <=> HasKey(r))
    <1>1. /\ HeadOf[q].tenant = HeadOf[r].tenant /\ HeadOf[q].header = HeadOf[r].header
          /\ HeadOf[q].path = HeadOf[r].path /\ RowsOf[q] = RowsOf[r]
        BY DEF KeyOf
    <1>2. /\ HeadOf[q] = [tenant |-> HeadOf[q].tenant, header |-> HeadOf[q].header, path |-> HeadOf[q].path]
          /\ HeadOf[r] = [tenant |-> HeadOf[r].tenant, header |-> HeadOf[r].header, path |-> HeadOf[r].path]
        BY RequestsAssumption
    <1>3. QED
        BY <1>1, <1>2 DEF HasKey

LEMMA OwnShared ==
    ASSUME NEW q \in Request, NEW r \in Request, KeyOf(q) = KeyOf(r), HasKey(r),
           NEW response, OwnReply(q, response)
    PROVE  OwnReply(r, response)
    <1>1. HeadOf[q] = HeadOf[r] /\ RowsOf[q] = RowsOf[r]
        BY SameKey
    <1>2. RowIds(q) = RowIds(r) /\ \A i, e : IsRowOf(q, i, e) <=> IsRowOf(r, i, e)
        BY <1>1 DEF RowIds, IsRowOf
    <1>3. ASSUME NEW i \in RowIds(r)
          PROVE  LET x == response[i]
                     first == {j \in RowIds(r) : j <= i /\ IsRowOf(r, j, x.email)}
                 IN  /\ IsRowOf(r, i, x.email)
                     /\ x.result = "done"
                     /\ \E j \in first : x.opts = RowsOf[r][j].opts /\ \A k \in first : j <= k
                     /\ x.by = r \/ /\ HasKey(r)
                                    /\ HeadOf[x.by] = HeadOf[r] /\ RowsOf[x.by] = RowsOf[r]
        BY <1>1, <1>2, <1>3 DEF OwnReply
    <1>4. QED
        BY <1>2, <1>3 DEF OwnReply

LEMMA ResponseIsSome ==
    ASSUME NEW r \in Request, NEW st
    PROVE  Response(r, st) # NoResponse
    <1>1. DOMAIN Response(r, st) = RowIds(r) /\ 1 \in RowIds(r)
        BY RowsTyped DEF Response
    <1>2. DOMAIN NoResponse = {}
        BY DEF NoResponse
    <1>3. QED
        BY <1>1, <1>2

Shapes ==
    /\ DOMAIN reply = Request
    /\ DOMAIN stored = Store
    /\ \A s \in Store : DOMAIN stored[s] = Key

\* What is stored under the key of a request may be given to it.
StoredOwn ==
    \A s \in Store, r \in Request :
        HasKey(r) /\ stored[s][KeyOf(r)] # NoResponse => OwnReply(r, stored[s][KeyOf(r)])

AnsweredOwn == \A r \in Request : phase[r] = "answered" => OwnReply(r, reply[r])

OwnInv == Shapes /\ StoredOwn /\ AnsweredOwn

LEMMA KeyIsKey == \A r \in Request : KeyOf(r) \in Key
    BY DEF Key

\* One request is answered.
LEMMA AnswerOwn ==
    ASSUME Shapes, AnsweredOwn, phase \in [Request -> Phase], NEW r \in Request, NEW response,
           Answer(r, response), OwnReply(r, response)
    PROVE  DOMAIN reply' = Request /\ AnsweredOwn'
    <1>1. /\ phase' = [phase EXCEPT ![r] = "answered"]
          /\ reply' = [reply EXCEPT ![r] = response]
        BY DEF Answer, Goto
    <1>2. DOMAIN reply' = Request
        BY <1>1 DEF Shapes
    <1>3. ASSUME NEW q \in Request, phase'[q] = "answered"
          PROVE  OwnReply(q, reply'[q])
        <2>1. CASE q = r
            <3>1. reply'[q] = response
                BY <1>1, <2>1 DEF Shapes
            <3>2. QED
                BY <2>1, <3>1
        <2>2. CASE q # r
            <3>1. reply'[q] = reply[q] /\ phase[q] = "answered"
                BY <1>1, <1>3, <2>2 DEF Shapes
            <3>2. QED
                BY <3>1 DEF AnsweredOwn
        <2>3. QED
            BY <2>1, <2>2
    <1>4. QED
        BY <1>2, <1>3 DEF AnsweredOwn

\* Nobody is answered.
LEMMA NoAnswerOwn ==
    ASSUME AnsweredOwn, UNCHANGED reply,
           \A r \in Request : phase'[r] = "answered" => phase[r] = "answered"
    PROVE  AnsweredOwn'
    BY DEF AnsweredOwn

LEMMA StoreStill ==
    ASSUME Shapes, StoredOwn, UNCHANGED stored
    PROVE  StoredOwn' /\ DOMAIN stored' = Store /\ \A s \in Store : DOMAIN stored'[s] = Key
    BY DEF StoredOwn, Shapes

LEMMA GotoOwn ==
    ASSUME OwnInv, phase \in [Request -> Phase], NEW r \in Request, NEW where, where # "answered",
           Goto(r, where), UNCHANGED <<reply, stored>>
    PROVE  OwnInv'
    <1>1. phase' = [phase EXCEPT ![r] = where]
        BY DEF Goto
    <1>2. \A q \in Request : phase'[q] = "answered" => phase[q] = "answered"
        BY <1>1
    <1>3. AnsweredOwn'
        BY <1>2, NoAnswerOwn DEF OwnInv
    <1>4. Shapes'
        BY DEF OwnInv, Shapes
    <1>5. StoredOwn'
        BY DEF OwnInv, StoredOwn
    <1>6. QED
        BY <1>3, <1>4, <1>5 DEF OwnInv

LEMMA LookedUpOwn ==
    ASSUME WorkInv, RestTyped, OwnInv, NEW r \in Request, LookedUp(r)
    PROVE  OwnInv'
    <1>1. phase \in [Request -> Phase] /\ HasKey(r) /\ UNCHANGED stored
        BY DEF WorkInv, RequestOK, LookedUp
    <1>2. Reached \subseteq Store
        BY RequestsAssumption DEF RestTyped, RedisMode, Reached, Store
    <1>3. CASE Goto(r, "executing") /\ UNCHANGED reply
        BY <1>1, <1>3, GotoOwn
    <1>4. ASSUME NEW s \in Reached, stored[s][KeyOf(r)] # NoResponse, Answer(r, stored[s][KeyOf(r)])
          PROVE  OwnInv'
        <2>1. OwnReply(r, stored[s][KeyOf(r)])
            BY <1>1, <1>2, <1>4 DEF OwnInv, StoredOwn
        <2>2. DOMAIN reply' = Request /\ AnsweredOwn'
            BY <1>1, <1>4, <2>1, AnswerOwn DEF OwnInv
        <2>3. StoredOwn' /\ DOMAIN stored' = Store /\ \A t \in Store : DOMAIN stored'[t] = Key
            BY <1>1, StoreStill DEF OwnInv
        <2>4. QED
            BY <2>2, <2>3 DEF OwnInv, Shapes
    <1>5. QED
        BY <1>3, <1>4 DEF LookedUp

LEMMA ItemVerifiedOwn ==
    ASSUME WorkInv, OwnInv, NEW r \in Request, NEW e \in Email, ItemVerified(r, e)
    PROVE  OwnInv'
    <1>1. phase \in [Request -> Phase] /\ UNCHANGED stored
        BY DEF WorkInv, ItemVerified
    <1>2. CASE UNCHANGED <<phase, reply>>
        BY <1>1, <1>2 DEF OwnInv, Shapes, StoredOwn, AnsweredOwn
    <1>3. CASE Goto(r, "storing") /\ UNCHANGED reply
        BY <1>1, <1>3, GotoOwn
    <1>4. CASE Finished(item'[r]) /\ Answer(r, Response(r, item'[r]))
        <2>1. \A f \in Emails(r) : item'[r][f] = "done"
            BY <1>4, ItemVerifiedIs
        <2>2. OwnReply(r, Response(r, item'[r]))
            BY <2>1, ResponseIsOwn
        <2>3. DOMAIN reply' = Request /\ AnsweredOwn'
            BY <1>1, <1>4, <2>2, AnswerOwn DEF OwnInv
        <2>4. StoredOwn' /\ DOMAIN stored' = Store /\ \A t \in Store : DOMAIN stored'[t] = Key
            BY <1>1, StoreStill DEF OwnInv
        <2>5. QED
            BY <2>3, <2>4 DEF OwnInv, Shapes
    <1>5. QED
        BY <1>2, <1>3, <1>4 DEF ItemVerified

\* What Saved does to the store.
LEMMA SavedIs ==
    ASSUME Shapes, NEW r \in Request, Saved(r)
    PROVE  \E made \in SUBSET Reached :
              /\ made # {}
              /\ DOMAIN stored' = Store /\ \A s \in Store : DOMAIN stored'[s] = Key
              /\ \A s \in Store, k \in Key :
                    stored'[s][k] = IF s \in made /\ k = KeyOf(r) THEN Response(r, item[r]) ELSE stored[s][k]
    <1>1. PICK made \in (SUBSET Reached) \ {{}} :
              stored' = [s \in Store |-> IF s \in made
                                        THEN [stored[s] EXCEPT ![KeyOf(r)] = Response(r, item[r])]
                                        ELSE stored[s]]
        BY DEF Saved
    <1> DEFINE response == Response(r, item[r])
    <1> HIDE DEF response
    <1>2. stored' = [s \in Store |-> IF s \in made THEN [stored[s] EXCEPT ![KeyOf(r)] = response] ELSE stored[s]]
        BY <1>1 DEF response
    <1>3. \A s \in Store : stored'[s] = IF s \in made THEN [stored[s] EXCEPT ![KeyOf(r)] = response] ELSE stored[s]
        BY <1>2
    <1>4. ASSUME NEW s \in Store
          PROVE  /\ DOMAIN stored'[s] = Key
                 /\ \A k \in Key : stored'[s][k] = IF s \in made /\ k = KeyOf(r) THEN response ELSE stored[s][k]
        BY <1>3 DEF Shapes
    <1>5. DOMAIN stored' = Store
        BY <1>2
    <1>6. QED
        BY <1>1, <1>4, <1>5 DEF response

LEMMA SavedOwn ==
    ASSUME WorkInv, OwnInv, NEW r \in Request, Saved(r)
    PROVE  OwnInv'
    <1>1. phase \in [Request -> Phase] /\ phase[r] = "storing" /\ Answer(r, Response(r, item[r]))
        BY DEF WorkInv, Saved
    <1>2. \A f \in Emails(r) : item[r][f] = "done"
        BY <1>1 DEF WorkInv, RequestOK
    <1>3. OwnReply(r, Response(r, item[r]))
        BY <1>2, ResponseIsOwn
    <1>4. DOMAIN reply' = Request /\ AnsweredOwn'
        BY <1>1, <1>3, AnswerOwn DEF OwnInv
    <1>5. PICK made \in SUBSET Reached :
              /\ DOMAIN stored' = Store /\ \A s \in Store : DOMAIN stored'[s] = Key
              /\ \A s \in Store, k \in Key :
                    stored'[s][k] = IF s \in made /\ k = KeyOf(r) THEN Response(r, item[r]) ELSE stored[s][k]
        BY SavedIs DEF OwnInv
    <1>6. ASSUME NEW s \in Store, NEW q \in Request, HasKey(q), stored'[s][KeyOf(q)] # NoResponse
          PROVE  OwnReply(q, stored'[s][KeyOf(q)])
        <2>1. KeyOf(q) \in Key
            BY KeyIsKey
        <2>2. CASE s \in made /\ KeyOf(q) = KeyOf(r)
            <3>1. stored'[s][KeyOf(q)] = Response(r, item[r])
                BY <1>5, <2>1, <2>2
            <3>2. OwnReply(q, Response(r, item[r]))
                BY <1>3, <1>6, <2>2, OwnShared
            <3>3. QED
                BY <3>1, <3>2
        <2>3. CASE ~(s \in made /\ KeyOf(q) = KeyOf(r))
            <3>1. stored'[s][KeyOf(q)] = stored[s][KeyOf(q)]
                BY <1>5, <2>1, <2>3
            <3>2. OwnReply(q, stored[s][KeyOf(q)])
                BY <1>6, <3>1 DEF OwnInv, StoredOwn
            <3>3. QED
                BY <3>1, <3>2
        <2>4. QED
            BY <2>2, <2>3
    <1>7. StoredOwn'
        BY <1>6 DEF StoredOwn
    <1>8. QED
        BY <1>4, <1>5, <1>7 DEF OwnInv, Shapes

\* Responses are lost from the store.
LEMMA ForgottenOwn ==
    ASSUME OwnInv, UNCHANGED reply,
           \A r \in Request : phase'[r] = "answered" => phase[r] = "answered",
           DOMAIN stored' = Store, \A s \in Store : DOMAIN stored'[s] = Key,
           \A s \in Store, k \in Key : stored'[s][k] \in {stored[s][k], NoResponse}
    PROVE  OwnInv'
    <1>1. StoredOwn'
        BY KeyIsKey DEF OwnInv, StoredOwn
    <1>2. AnsweredOwn'
        BY NoAnswerOwn DEF OwnInv
    <1>3. Shapes'
        BY DEF OwnInv, Shapes
    <1>4. QED
        BY <1>1, <1>2, <1>3 DEF OwnInv

LEMMA OwnStep ==
    ASSUME WorkInv, RestTyped, OwnInv, [Next]_vars
    PROVE  OwnInv'
    <1>0. phase \in [Request -> Phase] /\ Shapes
        BY DEF WorkInv, OwnInv
    <1>1. ASSUME NEW r \in Request, Held(r) \/ Post(r)
          PROVE  OwnInv'
        <2>1. /\ UNCHANGED <<reply, stored>>
              /\ \E where \in {"held", "looking", "executing", "refused"} : Goto(r, where)
            BY <1>1 DEF Held, Post
        <2>2. QED
            BY <1>0, <2>1, GotoOwn
    <1>2. CASE Signal \/ Stall \/ StartNext \/ UNCHANGED vars
        BY <1>2 DEF Signal, Stall, StartNext, vars, requestVars, OwnInv, Shapes, StoredOwn, AnsweredOwn
    <1>3. ASSUME NEW s \in Store, NEW k \in Key, Forget(s, k)
          PROVE  OwnInv'
        <2>1. stored' = [stored EXCEPT ![s][k] = NoResponse] /\ UNCHANGED <<phase, reply>>
            BY <1>3 DEF Forget
        <2>2. DOMAIN stored' = Store /\ \A t \in Store : DOMAIN stored'[t] = Key
            BY <1>0, <2>1 DEF Shapes
        <2>3. \A t \in Store, j \in Key : stored'[t][j] \in {stored[t][j], NoResponse}
            BY <1>0, <2>1 DEF Shapes
        <2>4. QED
            BY <2>1, <2>2, <2>3, ForgottenOwn
    <1>4. ASSUME Exit
          PROVE  OwnInv'
        <2>1. /\ stored' = [stored EXCEPT !["memory"] = [k \in Key |-> NoResponse]] /\ UNCHANGED reply
              /\ phase' = [r \in Request |-> IF phase[r] \in InFlight THEN "cut" ELSE phase[r]]
            BY <1>4 DEF Exit
        <2>2. DOMAIN stored' = Store /\ \A t \in Store : DOMAIN stored'[t] = Key
            BY <1>0, <2>1 DEF Shapes
        <2>3. \A t \in Store, j \in Key : stored'[t][j] \in {stored[t][j], NoResponse}
            BY <1>0, <2>1 DEF Shapes
        <2>4. \A r \in Request : phase'[r] = "answered" => phase[r] = "answered"
            BY <2>1
        <2>5. QED
            BY <2>1, <2>2, <2>3, <2>4, ForgottenOwn
    <1>5. \A r \in Request : Step(r) => OwnInv'
        BY LookedUpOwn, ItemVerifiedOwn, SavedOwn DEF Step
    <1>6. QED
        BY <1>1, <1>2, <1>3, <1>4, <1>5 DEF Next, Drained, GraceOver, Crash

LEMMA InitOwn ==
    ASSUME Init
    PROVE  OwnInv
    <1>1. /\ stored = [s \in Store |-> [k \in Key |-> NoResponse]] /\ reply = [r \in Request |-> NoResponse]
          /\ phase = [r \in Request |-> "new"]
        BY DEF Init
    <1>2. Shapes
        BY <1>1 DEF Shapes
    <1>3. StoredOwn
        BY <1>1, KeyIsKey DEF StoredOwn
    <1>4. AnsweredOwn
        BY <1>1 DEF AnsweredOwn
    <1>5. QED
        BY <1>2, <1>3, <1>4 DEF OwnInv

\* AnswersAreOwn: whatever overlaps, is shared under a key, is lost from a store or dies
\* with the process, nobody is given the results of another tenant or another body,
\* and each row has the options of the first row of its address.
THEOREM AnswersAreTheirs == Spec => []AnswersAreOwn
    <1>1. OwnInv => AnswersAreOwn
        BY DEF OwnInv, AnsweredOwn, OwnReply, AnswersAreOwn
    <1>2. QED
        BY <1>1, InitWork, WorkStep, InitRest, RestStep, InitOwn, OwnStep, PTL DEF Spec

-----------------------------------------------------------------------------
(* Retries *)

\* A lookup finds the response under this key, wherever it is made, if it is answered.
Kept(k) == \A s \in Reached : stored[s][k] # NoResponse

\* While Redis does not work now and then only: what was answered under a key is kept until it
\* is forgotten, and a retry of it stays away from the verifications.
RetryInv ==
    redis # "flaky" =>
        /\ \A r \in Request :
              phase[r] = "answered" /\ HasKey(r) /\ KeyOf(r) \notin forgotten => Kept(KeyOf(r))
        /\ \A r \in retry : KeyOf(r) \notin forgotten =>
              /\ Kept(KeyOf(r))
              /\ phase[r] \notin {"new", "executing", "storing"}
              /\ ~Executed(r)

AllInv == WorkInv /\ RestTyped /\ OwnInv

\* Redis is neither flaky nor silent: every call ends up in the same store.
LEMMA OneStore ==
    ASSUME RestTyped, redis \notin {"flaky", "silent"}
    PROVE  \E s \in Store : Reached = {s}
    <1>1. redis \in {"out", "up"}
        BY RequestsAssumption DEF RestTyped, RedisMode
    <1>2. QED
        BY <1>1 DEF Reached, Store

LEMMA RedisStill ==
    ASSUME [Next]_vars
    PROVE  /\ UNCHANGED redis \/ (redis = "up" /\ redis' = "silent")
           /\ forgotten \subseteq forgotten'
    <1>0. Stall => redis = "up" /\ redis' = "silent" /\ forgotten \subseteq forgotten'
        BY DEF Stall, History
    <1>1. \A r \in Request : Held(r) \/ Post(r) \/ Step(r) =>
              UNCHANGED redis /\ forgotten \subseteq forgotten'
        BY DEF Held, Post, Step, LookedUp, ItemVerified, Saved, History
    <1>2. \A s \in Store, k \in Key : Forget(s, k) => UNCHANGED redis /\ forgotten \subseteq forgotten'
        BY DEF Forget
    <1>3. Exit \/ Signal \/ StartNext \/ UNCHANGED vars => UNCHANGED redis /\ forgotten \subseteq forgotten'
        BY DEF Exit, Signal, StartNext, History, vars, requestVars
    <1>4. QED
        BY <1>0, <1>1, <1>2, <1>3 DEF Next, Drained, GraceOver, Crash

\* A silent Redis answers no lookup.
LEMMA SilentIsKept ==
    ASSUME redis' = "silent", NEW k
    PROVE  Kept(k)'
    BY DEF Kept, Reached

\* A response that is not forgotten is still there.
LEMMA KeptStep ==
    ASSUME AllInv, redis # "flaky", [Next]_vars, NEW k \in Key, k \notin forgotten', Kept(k)
    PROVE  Kept(k)'
    <1> SUFFICES ASSUME redis' # "silent"
                 PROVE  Kept(k)'
        BY SilentIsKept
    <1>0. Shapes /\ RestTyped /\ UNCHANGED redis
        BY RedisStill DEF AllInv, OwnInv
    <1>1. PICK s \in Store : Reached = {s}
        BY <1>0, OneStore
    <1>2. Reached' = {s}
        BY <1>0, <1>1 DEF Reached
    <1>3. stored[s][k] # NoResponse
        BY <1>1 DEF Kept
    <1>4. CASE UNCHANGED stored
        BY <1>2, <1>3, <1>4 DEF Kept
    <1>5. ASSUME NEW r \in Request, Saved(r)
          PROVE  Kept(k)'
        <2>1. stored'[s][k] \in {stored[s][k], Response(r, item[r])}
            BY <1>0, <1>5, SavedIs
        <2>2. QED
            BY <1>2, <1>3, <2>1, ResponseIsSome DEF Kept
    <1>6. ASSUME NEW t \in Store, NEW j \in Key, Forget(t, j)
          PROVE  Kept(k)'
        <2>1. stored' = [stored EXCEPT ![t][j] = NoResponse] /\ forgotten' = forgotten \cup {j}
            BY <1>6 DEF Forget
        <2>2. j # k
            BY <2>1
        <2>3. stored'[s][k] = stored[s][k]
            BY <1>0, <2>1, <2>2 DEF Shapes
        <2>4. QED
            BY <1>2, <1>3, <2>3 DEF Kept
    <1>7. ASSUME Exit
          PROVE  Kept(k)'
        <2>1. /\ stored' = [stored EXCEPT !["memory"] = [j \in Key |-> NoResponse]]
              /\ forgotten' = forgotten \cup {j \in Key : stored["memory"][j] # NoResponse}
            BY <1>7 DEF Exit
        <2>2. s # "memory"
            BY <1>3, <2>1
        <2>3. stored'[s][k] = stored[s][k]
            BY <1>0, <2>1, <2>2 DEF Shapes
        <2>4. QED
            BY <1>2, <1>3, <2>3 DEF Kept
    <1>8. \A r \in Request : Held(r) \/ Post(r) => UNCHANGED stored
        BY DEF Held, Post
    <1>9. \A r \in Request : Step(r) => Saved(r) \/ UNCHANGED stored
        BY DEF Step, LookedUp, ItemVerified
    <1>10. Signal \/ Stall \/ StartNext \/ UNCHANGED vars => UNCHANGED stored
        BY DEF Signal, Stall, StartNext, vars, requestVars
    <1>11. QED
        BY <1>4, <1>5, <1>6, <1>7, <1>8, <1>9, <1>10 DEF Next, Drained, GraceOver, Crash

\* A request does not touch the others.
LEMMA OthersStill ==
    ASSUME WorkInv, NEW q \in Request, Held(q) \/ Post(q) \/ Step(q), NEW r \in Request, r # q
    PROVE  phase'[r] = phase[r] /\ item'[r] = item[r]
    <1>1. BatchOK /\ phase \in [Request -> Phase] /\ RequestOK(q)
        BY DEF WorkInv
    <1>2. ASSUME phase[q] \in {"new", "looking"}, Accept(q)
          PROVE  item'[r] = item[r]
        <2>1. ~Executed(q)
            BY <1>1, <1>2 DEF RequestOK
        <2>2. QED
            BY <1>1, <1>2, <2>1, AcceptIs
    <1>3. CASE Post(q)
        <2>1. phase[q] = "new" /\ (Accept(q) \/ UNCHANGED batchVars) /\ \E where : Goto(q, where)
            BY <1>3 DEF Post
        <2>2. QED
            BY <1>1, <1>2, <2>1 DEF Goto, batchVars
    <1>4. CASE LookedUp(q)
        <2>1. phase[q] = "looking" /\ (Accept(q) \/ UNCHANGED batchVars) /\ \E where : Goto(q, where)
            BY <1>4 DEF LookedUp, Answer
        <2>2. QED
            BY <1>1, <1>2, <2>1 DEF Goto, batchVars
    <1>5. CASE Saved(q)
        BY <1>1, <1>5 DEF Saved, Answer, Goto, batchVars
    <1>6. ASSUME NEW e \in Email, ItemVerified(q, e)
          PROVE  phase'[r] = phase[r] /\ item'[r] = item[r]
        <2>1. UNCHANGED phase \/ \E where : Goto(q, where)
            BY <1>6 DEF ItemVerified, Answer
        <2>2. item'[r] = item[r]
            BY <1>6, ItemVerifiedIs
        <2>3. QED
            BY <1>1, <2>1, <2>2 DEF Goto
    <1>7. CASE Held(q)
        BY <1>1, <1>7 DEF Held, Goto, batchVars
    <1>8. QED
        BY <1>3, <1>4, <1>5, <1>6, <1>7 DEF Step

\* An answer that is not looked up again: it was found in the store, or put there.
LEMMA AnsweredIsKept ==
    ASSUME AllInv, RetryInv, redis # "flaky", [Next]_vars, NEW r \in Request,
           phase'[r] = "answered", HasKey(r), KeyOf(r) \notin forgotten'
    PROVE  Kept(KeyOf(r))'
    <1> SUFFICES ASSUME redis' # "silent"
                 PROVE  Kept(KeyOf(r))'
        BY SilentIsKept
    <1>0. /\ UNCHANGED redis
          /\ WorkInv /\ RestTyped /\ Shapes /\ phase \in [Request -> Phase] /\ KeyOf(r) \in Key
          /\ KeyOf(r) \notin forgotten
        BY KeyIsKey, RedisStill DEF AllInv, OwnInv, WorkInv
    <1>1. CASE phase[r] = "answered"
        <2>1. Kept(KeyOf(r))
            BY <1>0, <1>1 DEF RetryInv
        <2>2. QED
            BY <1>0, <2>1, KeptStep
    <1>2. PICK s \in Store : Reached = {s}
        BY <1>0, OneStore
    <1>3. CASE LookedUp(r)
        <2>1. CASE stored[s][KeyOf(r)] # NoResponse
            <3>1. Kept(KeyOf(r))
                BY <1>2, <2>1 DEF Kept
            <3>2. QED
                BY <1>0, <3>1, KeptStep
        <2>2. CASE Goto(r, "executing")
            <3>1. phase'[r] = "executing"
                BY <1>0, <2>2, GotoIs, PhaseNames
            <3>2. QED
                BY <3>1
        <2>3. QED
            BY <1>2, <1>3, <2>1, <2>2 DEF LookedUp
    <1>4. CASE Saved(r)
        <2>1. PICK made \in SUBSET Reached :
                  /\ made # {}
                  /\ \A t \in Store, k \in Key :
                        stored'[t][k] = IF t \in made /\ k = KeyOf(r) THEN Response(r, item[r]) ELSE stored[t][k]
            BY <1>0, <1>4, SavedIs
        <2>2. s \in made
            BY <1>2, <2>1
        <2>3. stored'[s][KeyOf(r)] = Response(r, item[r])
            BY <1>0, <2>1, <2>2
        <2>4. Reached' = {s}
            BY <1>0, <1>2 DEF Reached
        <2>5. QED
            BY <2>3, <2>4, ResponseIsSome DEF Kept
    <1>5. ASSUME phase[r] # "answered", ~LookedUp(r), ~Saved(r)
          PROVE  FALSE
        <2>1. ASSUME UNCHANGED phase
              PROVE  FALSE
            BY <1>5, <2>1
        <2>2. ASSUME NEW where \in Phase \ {"answered"}, Goto(r, where)
              PROVE  FALSE
            BY <1>0, <2>2, GotoIs
        <2>3. ASSUME Held(r) \/ Post(r)
              PROVE  FALSE
            BY <2>2, <2>3, PhaseNames DEF Held, Post
        <2>4. ASSUME NEW e \in Email, ItemVerified(r, e)
              PROVE  FALSE
            BY <2>1, <2>2, <2>4, PhaseNames DEF ItemVerified
        <2>5. ASSUME NEW q \in Request, q # r, Held(q) \/ Post(q) \/ Step(q)
              PROVE  FALSE
            BY <1>0, <1>5, <2>5, OthersStill
        <2>6. ASSUME Exit
              PROVE  FALSE
            BY <1>5, <2>6 DEF Exit
        <2>7. Signal \/ Stall \/ StartNext \/ (\E t \in Store, k \in Key : Forget(t, k)) \/ UNCHANGED vars => UNCHANGED phase
            BY DEF Signal, Stall, StartNext, Forget, vars, requestVars
        <2>8. QED
            BY <1>5, <2>1, <2>3, <2>4, <2>5, <2>6, <2>7 DEF Next, Step, Drained, GraceOver, Crash
    <1>6. QED
        BY <1>1, <1>3, <1>4, <1>5

\* A retry that is under way, or over, does not begin to execute.
LEMMA RetryStays ==
    ASSUME AllInv, redis # "flaky", [Next]_vars, NEW r \in Request, Kept(KeyOf(r)),
           phase[r] \notin {"new", "executing", "storing"}, ~Executed(r)
    PROVE  phase'[r] \notin {"new", "executing", "storing"} /\ ~Executed(r)'
    <1>0. WorkInv /\ RestTyped /\ BatchOK /\ phase \in [Request -> Phase] /\ item \in Items
        BY DEF AllInv, WorkInv, BatchOK
    <1>1. CASE phase'[r] = phase[r] /\ item'[r] = item[r]
        BY <1>1 DEF Executed
    <1>2. CASE LookedUp(r)
        <2>1. \A s \in Reached : stored[s][KeyOf(r)] # NoResponse
            BY DEF Kept
        <2>2. Goto(r, "answered") /\ UNCHANGED batchVars
            BY <1>2, <2>1 DEF LookedUp, Answer
        <2>3. phase'[r] = "answered" /\ item' = item
            BY <1>0, <2>2, GotoIs, PhaseNames DEF batchVars
        <2>4. QED
            BY <2>3 DEF Executed
    <1>3. ASSUME Exit
          PROVE  phase'[r] \notin {"new", "executing", "storing"} /\ ~Executed(r)'
        <2>1. phase'[r] \in {"cut", phase[r]} /\ \A e \in Email : item'[r][e] = "none"
            BY <1>3 DEF Exit
        <2>2. QED
            BY <2>1 DEF Executed
    <1>4. CASE StartNext
        <2>1. Start /\ UNCHANGED phase
            BY <1>4 DEF StartNext, requestVars
        <2>2. \A e \in Email : item'[r][e] = item[r][e] \/ item[r][e] = "queued"
            BY <1>0, <2>1, StartKeeps
        <2>3. \A e \in Email : item[r][e] = "none"
            BY DEF Executed
        <2>4. QED
            BY <2>1, <2>2, <2>3 DEF Executed
    <1>5. ~Held(r) /\ ~Post(r) /\ ~Saved(r) /\ \A e \in Email : ~ItemVerified(r, e)
        BY <1>0, ItemVerifiedIs DEF Held, Post, Saved
    <1>6. ASSUME NEW q \in Request, q # r, Held(q) \/ Post(q) \/ Step(q)
          PROVE  phase'[r] = phase[r] /\ item'[r] = item[r]
        BY <1>0, <1>6, OthersStill
    <1>7. Signal \/ Stall \/ (\E t \in Store, k \in Key : Forget(t, k)) \/ UNCHANGED vars => UNCHANGED <<phase, item>>
        BY DEF Signal, Stall, Forget, vars, requestVars, batchVars
    <1>8. QED
        BY <1>1, <1>2, <1>3, <1>4, <1>5, <1>6, <1>7 DEF Next, Step, Drained, GraceOver, Crash

\* A retry is sent when its answer is kept.
LEMMA RetryBegins ==
    ASSUME AllInv, RetryInv, redis # "flaky", [Next]_vars, NEW r \in retry', r \notin retry,
           KeyOf(r) \notin forgotten'
    PROVE  /\ r \in Request /\ Kept(KeyOf(r))
           /\ phase'[r] \notin {"new", "executing", "storing"} /\ ~Executed(r)'
    <1>0. WorkInv /\ phase \in [Request -> Phase] /\ \A q \in Request : RequestOK(q)
        BY DEF AllInv, WorkInv
    <1>1. ASSUME UNCHANGED retry
          PROVE  FALSE
        BY <1>1
    <1>2. Exit \/ Signal \/ Stall \/ StartNext \/ (\E t \in Store, k \in Key : Forget(t, k)) \/ UNCHANGED vars => UNCHANGED retry
        BY DEF Exit, Signal, Stall, StartNext, Forget, History, vars, requestVars
    <1>3. \A q \in Request : Held(q) \/ Step(q) => UNCHANGED retry
        BY DEF Held, Step, LookedUp, ItemVerified, Saved, History
    <1>4. PICK p \in Request : Post(p)
        BY <1>1, <1>2, <1>3 DEF Next, Drained, GraceOver, Crash
    <1>5. p = r /\ phase[r] = "new" /\ HasKey(r) /\ Goto(r, "looking") /\ UNCHANGED <<batchVars, forgotten>>
          /\ \E q \in Request : phase[q] = "answered" /\ KeyOf(q) = KeyOf(r)
        BY <1>1, <1>4 DEF Post
    <1>6. PICK q \in Request : phase[q] = "answered" /\ KeyOf(q) = KeyOf(r)
        BY <1>5
    <1>7. r \in Request /\ HasKey(q)
        BY <1>4, <1>5, <1>6, SameKey
    <1>8. Kept(KeyOf(r))
        BY <1>5, <1>6, <1>7 DEF RetryInv
    <1>9. phase'[r] = "looking" /\ item' = item
        BY <1>0, <1>5, <1>7, GotoIs, PhaseNames DEF batchVars
    <1>10. ~Executed(r)
        BY <1>0, <1>5, <1>7 DEF RequestOK
    <1>11. QED
        BY <1>7, <1>8, <1>9, <1>10 DEF Executed

LEMMA RetryStep ==
    ASSUME AllInv, RetryInv, [Next]_vars
    PROVE  RetryInv'
    <1> SUFFICES ASSUME redis # "flaky"
                 PROVE  RetryInv'
        BY RedisStill DEF RetryInv
    <1>1. \A r \in Request :
              phase'[r] = "answered" /\ HasKey(r) /\ KeyOf(r) \notin forgotten' => Kept(KeyOf(r))'
        BY AnsweredIsKept
    <1>2. ASSUME NEW r \in retry', KeyOf(r) \notin forgotten'
          PROVE  /\ Kept(KeyOf(r))'
                 /\ phase'[r] \notin {"new", "executing", "storing"} /\ ~Executed(r)'
        <2>1. CASE r \in retry
            <3>1. r \in Request /\ KeyOf(r) \notin forgotten
                BY <1>2, <2>1, RedisStill DEF AllInv, RestTyped
            <3>2. Kept(KeyOf(r)) /\ phase[r] \notin {"new", "executing", "storing"} /\ ~Executed(r)
                BY <2>1, <3>1 DEF RetryInv
            <3>3. phase'[r] \notin {"new", "executing", "storing"} /\ ~Executed(r)'
                BY <3>1, <3>2, RetryStays
            <3>4. Kept(KeyOf(r))'
                BY <1>2, <3>1, <3>2, KeyIsKey, KeptStep
            <3>5. QED
                BY <3>3, <3>4
        <2>2. CASE r \notin retry
            <3>1. r \in Request /\ Kept(KeyOf(r))
                  /\ phase'[r] \notin {"new", "executing", "storing"} /\ ~Executed(r)'
                BY <1>2, <2>2, RetryBegins
            <3>2. Kept(KeyOf(r))'
                BY <1>2, <3>1, KeyIsKey, KeptStep
            <3>3. QED
                BY <3>1, <3>2
        <2>3. QED
            BY <2>1, <2>2
    <1>3. QED
        BY <1>1, <1>2 DEF RetryInv

\* RetriesAreReplayed: with Redis out for the whole time, or working for as long as it
\* answers, a request sent again after its answer causes no verification for as long as
\* the answer is kept, whatever overlaps it and however often the process dies on the way.
THEOREM RetriesAreNotExecuted == Spec => []RetriesAreReplayed
    <1>1. Init => RetryInv
        BY DEF Init, RetryInv
    <1>2. RetryInv => RetriesAreReplayed
        BY DEF RetryInv, RetriesAreReplayed
    <1>3. Init => AllInv
        BY InitWork, InitRest, InitOwn DEF AllInv
    <1>4. AllInv /\ [Next]_vars => AllInv'
        BY WorkStep, RestStep, OwnStep DEF AllInv
    <1>5. QED
        BY <1>1, <1>2, <1>3, <1>4, RetryStep, PTL DEF Spec

=============================================================================
