------------------------- MODULE PollReadersProofs -------------------------
(***************************************************************************)
(* The two lists of pollers, for any number of pollers, writers and        *)
(* updates: paced or not, preempted or not, killed or not.  Then, for      *)
(* paced updates, the life of the vector, what each poller gets, and that  *)
(* nobody sleeps through one; in every mode, which wake-ups are lost; last,*)
(* one file of several a poller has open.                                  *)
(***************************************************************************)
EXTENDS PollReaders, SequenceTheorems, TLAPS

USE DEF listVars, vectorVars, semVars, tableVars, listsOfFiles, waitVars, rwVars,
        readVars

Processes == Pollers \cup Writers

LEMMA ConcatElements ==
  ASSUME NEW s \in Seq(Pollers), NEW t \in Seq(Pollers)
  PROVE  /\ s \o t \in Seq(Pollers)
         /\ Len(s \o t) = Len(s) + Len(t)
         /\ \A i \in 1 .. Len(s) : (s \o t)[i] = s[i]
         /\ \A i \in 1 .. Len(t) : (s \o t)[Len(s) + i] = t[i]
OBVIOUS

(* A sequence in which nothing occurs twice loses its one copy of p.       *)
LEMMA RemoveFirstProperties ==
  ASSUME NEW s \in Seq(Pollers), IsInjective(s), NEW p \in Pollers
  PROVE  /\ RemoveFirst(s, p) \in Seq(Pollers)
         /\ IsInjective(RemoveFirst(s, p))
         /\ \A q \in Pollers : Contains(RemoveFirst(s, p), q)
                                 <=> Contains(s, q) /\ q # p
<1>1. CASE ~Contains(s, p)
  BY <1>1 DEF RemoveFirst, Contains
<1>2. CASE Contains(s, p)
  <2>1. PICK k \in 1 .. Len(s) : s[k] = p
    BY <1>2 DEF Contains
  <2>2. {i \in 1 .. Len(s) : s[i] = p} = {k}
    BY <2>1 DEF IsInjective
  <2>3. SelectInSeq(s, LAMBDA v : v = p) = k
    BY <2>2 DEF SelectInSeq, Min
  <2> DEFINE l == SubSeq(s, 1, k - 1)
             m == SubSeq(s, k + 1, Len(s))
             r == l \o m
  <2>4. RemoveFirst(s, p) = r
    BY <2>1, <2>3 DEF RemoveFirst, RemoveAt
  <2>5. /\ r \in Seq(Pollers) /\ Len(r) = Len(s) - 1
        /\ \A i \in 1 .. Len(r) : r[i] = IF i < k THEN s[i] ELSE s[i + 1]
    <3>1. l \in Seq(Pollers) /\ Len(l) = k - 1 /\ \A i \in 1 .. k - 1 : l[i] = s[i]
      BY <2>1
    <3>2. /\ m \in Seq(Pollers) /\ Len(m) = Len(s) - k
          /\ \A i \in 1 .. Len(s) - k : m[i] = s[k + i]
      BY <2>1
    <3> HIDE DEF l, m
    <3>3. r \in Seq(Pollers) /\ Len(r) = Len(s) - 1
      BY <2>1, <3>1, <3>2, ConcatElements
    <3>4. \A i \in 1 .. k - 1 : r[i] = s[i]
      BY <2>1, <3>1, <3>2, ConcatElements
    <3>5. ASSUME NEW i \in k .. Len(r) PROVE r[i] = s[i + 1]
      <4>1. i - (k - 1) \in 1 .. Len(m)
        BY <2>1, <3>2, <3>3
      <4>2. r[Len(l) + (i - (k - 1))] = m[i - (k - 1)]
        BY <4>1, <3>1, <3>2, ConcatElements
      <4>3. m[i - (k - 1)] = s[k + (i - (k - 1))]
        BY <4>1, <3>2
      <4>4. Len(l) + (i - (k - 1)) = i /\ k + (i - (k - 1)) = i + 1
        BY <2>1, <3>1, <3>3
      <4> QED
        BY <4>2, <4>3, <4>4
    <3> QED
      BY <2>1, <3>3, <3>4, <3>5
  <2>6. s \in Seq(Pollers) /\ Len(s) \in Nat
    OBVIOUS
  <2> HIDE DEF r
  <2>7. IsInjective(r)
    <3> DEFINE from(i) == IF i < k THEN i ELSE i + 1
    <3>1. DOMAIN r = 1 .. Len(r) /\ DOMAIN s = 1 .. Len(s)
      BY <2>5
    <3>2. \A i \in 1 .. Len(r) : from(i) \in 1 .. Len(s) /\ r[i] = s[from(i)]
      BY <2>1, <2>5, <2>6
    <3>3. \A i, j \in 1 .. Len(r) : from(i) = from(j) => i = j
      BY <2>1, <2>5, <2>6
    <3> HIDE DEF from
    <3>4. ASSUME NEW i \in 1 .. Len(r), NEW j \in 1 .. Len(r), r[i] = r[j] PROVE i = j
      <4>1. /\ from(i) \in DOMAIN s /\ from(j) \in DOMAIN s
            /\ s[from(i)] = s[from(j)]
        BY <3>1, <3>2, <3>4
      <4>2. from(i) = from(j)
        BY <4>1 DEF IsInjective
      <4> QED
        BY <4>2, <3>3
    <3> QED
      BY <3>1, <3>4 DEF IsInjective
  <2>8. ASSUME NEW q \in Pollers
        PROVE  Contains(r, q) <=> Contains(s, q) /\ q # p
    <3>1. ASSUME Contains(r, q) PROVE Contains(s, q) /\ q # p
      <4>1. PICK i \in 1 .. Len(r) : r[i] = q
        BY <3>1 DEF Contains
      <4>2. PICK j \in 1 .. Len(s) : j # k /\ s[j] = q
        BY <4>1, <2>1, <2>5, <2>6
      <4>3. s[j] # s[k]
        BY <4>2, <2>1, <2>6 DEF IsInjective
      <4> QED
        BY <4>2, <4>3, <2>1 DEF Contains
    <3>2. ASSUME Contains(s, q), q # p PROVE Contains(r, q)
      <4>1. PICK j \in 1 .. Len(s) : s[j] = q /\ j # k
        BY <3>2, <2>1 DEF Contains
      <4>2. CASE j < k
        BY <4>1, <4>2, <2>1, <2>5, <2>6 DEF Contains
      <4>3. CASE j > k
        <5>1. j - 1 \in 1 .. Len(r) /\ r[j - 1] = q
          BY <4>1, <4>3, <2>1, <2>5, <2>6
        <5> QED
          BY <5>1 DEF Contains
      <4> QED
        BY <4>1, <4>2, <4>3
    <3> QED
      BY <3>1, <3>2
  <2> QED
    BY <2>4, <2>5, <2>7, <2>8
<1> QED
  BY <1>1, <1>2

(* A new file in front of a list it is not in.                             *)
LEMMA PushProperties ==
  ASSUME NEW s \in Seq(Pollers), IsInjective(s), NEW p \in Pollers, ~Contains(s, p)
  PROVE  /\ <<p>> \o s \in Seq(Pollers)
         /\ IsInjective(<<p>> \o s)
         /\ \A q \in Pollers : Contains(<<p>> \o s, q) <=> Contains(s, q) \/ q = p
<1> DEFINE r == <<p>> \o s
<1>1. r \in Seq(Pollers) /\ Len(r) = Len(s) + 1
  OBVIOUS
<1>2. \A i \in 1 .. Len(r) : r[i] = IF i = 1 THEN p ELSE s[i - 1]
  BY <1>1
<1>3. IsInjective(r)
  BY <1>1, <1>2 DEF IsInjective, Contains
<1>4. ASSUME NEW q \in Pollers
      PROVE  Contains(r, q) <=> Contains(s, q) \/ q = p
  <2>1. ASSUME Contains(s, q) PROVE Contains(r, q)
    <3>1. PICK i \in 1 .. Len(s) : s[i] = q
      BY <2>1 DEF Contains
    <3>2. i + 1 \in 1 .. Len(r) /\ r[i + 1] = q
      BY <3>1, <1>1, <1>2
    <3> QED
      BY <3>2 DEF Contains
  <2>2. Contains(r, p)
    BY <1>1, <1>2 DEF Contains
  <2>3. ASSUME Contains(r, q), q # p PROVE Contains(s, q)
    BY <2>3, <1>1, <1>2 DEF Contains
  <2> QED
    BY <2>1, <2>2, <2>3
<1> QED
  BY <1>1, <1>3, <1>4

(* A concatenation contains what its parts contain.                        *)
LEMMA ContainsConcat ==
  ASSUME NEW s \in Seq(Pollers), NEW t \in Seq(Pollers), NEW q \in Pollers
  PROVE  Contains(s \o t, q) <=> Contains(s, q) \/ Contains(t, q)
<1> DEFINE r == s \o t
<1>1. r \in Seq(Pollers) /\ Len(r) = Len(s) + Len(t)
  BY ConcatElements
<1>2. \A i \in 1 .. Len(r) : r[i] = IF i <= Len(s) THEN s[i] ELSE t[i - Len(s)]
  BY <1>1
<1>6. \A i \in 1 .. Len(s) : i \in 1 .. Len(r) /\ r[i] = s[i]
  BY <1>1, ConcatElements
<1> HIDE DEF r
<1>3. ASSUME Contains(s, q) PROVE Contains(r, q)
  <2>1. PICK i \in 1 .. Len(s) : s[i] = q
    BY <1>3 DEF Contains
  <2>2. i \in 1 .. Len(r) /\ r[i] = q
    BY <2>1, <1>6
  <2> QED
    BY <2>2 DEF Contains
<1>4. ASSUME Contains(t, q) PROVE Contains(r, q)
  <2>1. PICK i \in 1 .. Len(t) : t[i] = q
    BY <1>4 DEF Contains
  <2>2. i + Len(s) \in 1 .. Len(r) /\ r[i + Len(s)] = q
    BY <2>1, <1>1, <1>2
  <2> QED
    BY <2>2 DEF Contains
<1>5. ASSUME Contains(r, q), ~Contains(s, q) PROVE Contains(t, q)
  <2>1. PICK i \in 1 .. Len(r) : r[i] = q
    BY <1>5 DEF Contains
  <2>2. i > Len(s)
    BY <2>1, <1>5, <1>1, <1>2 DEF Contains
  <2>3. i - Len(s) \in 1 .. Len(t) /\ t[i - Len(s)] = q
    BY <2>1, <2>2, <1>1, <1>2
  <2> QED
    BY <2>3 DEF Contains
<1> QED
  BY <1>3, <1>4, <1>5 DEF r

(* So many bytes of an element, and all of it if they reach that far.      *)
LEMMA ArrivesProperties ==
  ASSUME NEW i \in Nat \ {0}, NEW k \in Nat
  PROVE  /\ Arrives(i, k) \in Nat
         /\ Arrives(i, k) = UpdateSize <=> i * UpdateSize <= k * EntrySize
<1> DEFINE before == (i - 1) * UpdateSize
           asked == k * EntrySize
<1>1. UpdateSize \in Nat /\ UpdateSize > 0
  BY TableAssumption
<1>2. before \in Nat /\ asked \in Nat /\ i * UpdateSize = before + UpdateSize
  BY <1>1, TableAssumption
<1> HIDE DEF before, asked
<1> QED
  BY <1>1, <1>2 DEF Arrives, Least, before, asked

(* What is copied is a sequence of pieces.                                 *)
LEMMA CopiedType ==
  ASSUME NEW c, NEW k \in Nat, hold[c] # Null => body[hold[c]] \in Seq(Updates)
  PROVE  Copied(c, k) \in Seq(Pieces)
<1>1. CASE hold[c] = Null
  BY <1>1 DEF Copied
<1>2. CASE hold[c] # Null
  <2> DEFINE b == body[hold[c]]
             m == Least(k, Len(b))
  <2>1. b \in Seq(Updates) /\ m \in Nat /\ m <= Len(b)
    BY <1>2 DEF Least
  <2>2. ASSUME NEW i \in 1 .. m PROVE [update |-> b[i], bytes |-> Arrives(i, k)] \in Pieces
    <3>1. b[i] \in Updates
      BY <2>1, ElementOfSeq
    <3>2. i \in Nat \ {0}
      BY <2>1
    <3>3. Arrives(i, k) \in Nat
      BY <3>2, ArrivesProperties
    <3> QED
      BY <3>1, <3>3 DEF Pieces
  <2>3. Copied(c, k) = [i \in 1 .. m |-> [update |-> b[i], bytes |-> Arrives(i, k)]]
    BY <1>2 DEF Copied
  <2>4. Copied(c, k) \in [1 .. m -> Pieces]
    BY <2>2, <2>3
  <2> HIDE DEF m
  <2> QED
    BY <2>1, <2>4
<1> QED
  BY <1>1, <1>2

(* A buffer filled from a vector that holds some updates holds them.       *)
LEMMA CopyHolds ==
  ASSUME NEW q \in Seq(Updates), NEW p, hold[p] # Null, body[hold[p]] = q
  PROVE  Holds(Copied(p, Len(q)), q)
<1> DEFINE piece(i) == [update |-> q[i], bytes |-> Arrives(i, Len(q))]
<1>1. Len(q) \in Nat /\ Least(Len(q), Len(q)) = Len(q)
  BY DEF Least
<1>2. Copied(p, Len(q)) = [i \in 1 .. Len(q) |-> piece(i)]
  BY <1>1 DEF Copied
<1>3. Len(Copied(p, Len(q))) = Len(q)
  <2> HIDE DEF piece
  <2> QED
    BY <1>1, <1>2
<1>4. ASSUME NEW i \in 1 .. Len(q)
      PROVE  /\ Copied(p, Len(q))[i].update = q[i]
             /\ Copied(p, Len(q))[i].bytes = UpdateSize
                   <=> i * UpdateSize <= Len(q) * EntrySize
  <2>1. Copied(p, Len(q))[i].update = q[i] /\ Copied(p, Len(q))[i].bytes = Arrives(i, Len(q))
    BY <1>2
  <2>2. i \in Nat \ {0}
    BY <1>1
  <2>3. Arrives(i, Len(q)) = UpdateSize <=> i * UpdateSize <= Len(q) * EntrySize
    BY <1>1, <2>2, ArrivesProperties
  <2> QED
    BY <2>1, <2>3
<1> QED
  BY <1>3, <1>4 DEF Holds
-----------------------------------------------------------------------------
(* What the proof needs of the types.                                      *)
ListTypes == /\ DOMAIN pc = Processes
             /\ pollList \in Seq(Pollers) /\ blackList \in Seq(Pollers)
             /\ registered \in [Pollers -> BOOLEAN]

Listed(p) == Contains(pollList, p) \/ Contains(blackList, p)

(* No file is twice in a list or in both.                                  *)
ListsDisjoint ==
    /\ IsInjective(pollList) /\ IsInjective(blackList)
    /\ \A p \in Pollers : ~(Contains(pollList, p) /\ Contains(blackList, p))

(* rt_poll lets only a file that is not black-listed go on to rt_read, and *)
(* nobody black-lists a file but its own reader on leaving.                *)
ReadersNotBlack == \A p \in Pollers :
    pc[p] \in InRead \cup {"ready"} => ~Contains(blackList, p)

(* From the query that found no data for it to the end of its sleep a      *)
(* poller is in a list; while it sleeps it is on the wait queue.           *)
WaitersListed == \A p \in Pollers :
    /\ pc[p] \in {"register", "asleep"} => Listed(p)
    /\ pc[p] = "asleep" => registered[p]

ListInv == ListTypes /\ ListsDisjoint /\ ReadersNotBlack /\ WaitersListed

LEMMA InitList == Init => ListInv
<1> SUFFICES ASSUME Init PROVE ListInv
  OBVIOUS
<1>1. /\ DOMAIN pc = Processes
      /\ \A p \in Pollers : pc[p] = "user"
  BY PollAssumption DEF Init, Processes
<1> QED
  BY <1>1 DEF Init, ListInv, ListTypes, ListsDisjoint, ReadersNotBlack,
     WaitersListed, InRead, IsInjective, Contains

(* A process goes to another place; the others stay where they are.        *)
LEMMA Moves ==
  ASSUME ListTypes, NEW t \in Processes, NEW from, NEW to,
         Goto(t, from, to)
  PROVE  /\ DOMAIN pc' = Processes
         /\ pc[t] = from /\ pc'[t] = to
         /\ \A p \in Pollers : p # t => pc'[p] = pc[p]
BY DEF ListTypes, Goto, Processes

(* A step that touches neither list keeps the invariant if it brings p     *)
(* neither among the readers nor to sleep from outside.                    *)
LEMMA ListsUntouched ==
  ASSUME ListInv, NEW t \in Processes, NEW from, NEW to,
         Goto(t, from, to), UNCHANGED listsOfFiles,
         registered' \in [Pollers -> BOOLEAN],
         \A p \in Pollers : p # t => registered'[p] = registered[p],
         t \in Pollers =>
            /\ to \in InRead \cup {"ready"} => ~Contains(blackList, t)
            /\ to \in {"register", "asleep"} => Listed(t)
            /\ to = "asleep" => registered'[t]
  PROVE  ListInv'
<1>1. ListTypes' /\ ListsDisjoint'
  BY Moves DEF ListInv, ListTypes, ListsDisjoint
<1>2. ReadersNotBlack'
  BY Moves DEF ListInv, ReadersNotBlack
<1>3. WaitersListed'
  BY Moves DEF ListInv, WaitersListed, Listed
<1> QED
  BY <1>1, <1>2, <1>3 DEF ListInv

(* The three steps that change a list.                                     *)
LEMMA JoinKeepsLists ==
  ASSUME ListInv, NEW p \in Pollers, PollJoins(p)
  PROVE  ListInv'
<1> USE DEF PollJoins, ListInv
<1>0. p \in Processes /\ Goto(p, "query", "register")
  BY DEF Processes
<1>1. /\ pollList' \in Seq(Pollers) /\ IsInjective(pollList')
      /\ \A q \in Pollers : Contains(pollList', q) <=> Contains(pollList, q) \/ q = p
  BY PushProperties DEF add_rt_table_unique_poll_reader, ListTypes, ListsDisjoint
<1>2. ListTypes'
  BY <1>0, <1>1, Moves DEF ListTypes
<1>3. ListsDisjoint'
  BY <1>1 DEF ListsDisjoint
<1>4. ReadersNotBlack'
  BY <1>0, Moves DEF ReadersNotBlack, InRead
<1>5. WaitersListed'
  BY <1>0, <1>1, Moves DEF WaitersListed, Listed
<1> QED
  BY <1>2, <1>3, <1>4, <1>5

LEMMA RejoinKeepsLists ==
  ASSUME ListInv, NEW p \in Pollers, PollRejoins(p)
  PROVE  ListInv'
<1> USE DEF PollRejoins, ListInv
<1>0. p \in Processes /\ Goto(p, "query", "register")
  BY DEF Processes
<1>1. CASE pollList # <<>>
  BY <1>0, <1>1, ListsUntouched DEF ListTypes, Listed, InRead
<1>2. CASE pollList = <<>>
  <2>1. pollList' = blackList /\ blackList' = <<>>
    BY <1>2
  <2>2. \A q \in Pollers : ~Contains(pollList, q) /\ ~Contains(blackList', q)
    BY <1>2, <2>1 DEF Contains
  <2>3. ListTypes'
    BY <1>0, <2>1, Moves DEF ListTypes
  <2>4. ListsDisjoint'
    BY <2>1, <2>2 DEF ListsDisjoint, IsInjective
  <2>5. ReadersNotBlack'
    BY <2>2 DEF ReadersNotBlack
  <2>6. WaitersListed'
    BY <1>0, <2>1, <2>2, Moves DEF WaitersListed, Listed
  <2> QED
    BY <2>3, <2>4, <2>5, <2>6
<1> QED
  BY <1>1, <1>2

LEMMA LeaveKeepsLists ==
  ASSUME ListInv, NEW p \in Pollers, ReadLeaves(p)
  PROVE  ListInv'
<1> USE DEF ReadLeaves, ListInv
<1>0. p \in Processes /\ Goto(p, "exit", "user")
  BY DEF Processes
<1>1. /\ pollList' \in Seq(Pollers) /\ IsInjective(pollList')
      /\ \A q \in Pollers : Contains(pollList', q) <=> Contains(pollList, q) /\ q # p
  BY RemoveFirstProperties DEF ListTypes, ListsDisjoint
<1>2. ~Contains(blackList, p)
  BY <1>0, Moves DEF ReadersNotBlack, InRead
<1>3. /\ blackList' \in Seq(Pollers) /\ IsInjective(blackList')
      /\ \A q \in Pollers : Contains(blackList', q) <=> Contains(blackList, q) \/ q = p
  BY <1>2, PushProperties DEF ListTypes, ListsDisjoint
<1>4. ListTypes'
  BY <1>0, <1>1, <1>3, Moves DEF ListTypes
<1>5. ListsDisjoint'
  BY <1>1, <1>3 DEF ListsDisjoint
<1>6. ReadersNotBlack'
  BY <1>0, <1>3, Moves DEF ReadersNotBlack, InRead
<1>7. WaitersListed'
  BY <1>0, <1>1, <1>3, Moves DEF WaitersListed, Listed
<1> QED
  BY <1>4, <1>5, <1>6, <1>7
-----------------------------------------------------------------------------
LEMMA PollerKeepsLists ==
  ASSUME ListInv, NEW p \in Pollers,
         PollEnters(p) \/ PollStep(p) \/ ReadStep(p) \/ Killed(p) \/ KilledInRead(p)
  PROVE  ListInv'
<1> p \in Processes
  BY DEF Processes
<1> USE DEF ListInv
<1>1. CASE PollEnters(p)
  BY <1>1, ListsUntouched DEF PollEnters, ListTypes, InRead
<1>2. CASE PollReady(p)
  <2>1. /\ registered' \in [Pollers -> BOOLEAN]
        /\ \A q \in Pollers : q # p => registered'[q] = registered[q]
    BY <1>2 DEF PollReady, Deregister, ListTypes
  <2> QED
    BY <1>2, <2>1, ListsUntouched DEF PollReady
<1>3. CASE PollJoins(p)
  BY <1>3, JoinKeepsLists
<1>4. CASE PollDenied(p)
  BY <1>4, ListsUntouched DEF PollDenied, ListTypes, Listed, InRead
<1>5. CASE PollRejoins(p)
  BY <1>5, RejoinKeepsLists
<1>6. CASE PollSleeps(p)
  <2>1. /\ registered' \in [Pollers -> BOOLEAN] /\ registered'[p]
        /\ \A q \in Pollers : q # p => registered'[q] = registered[q]
    BY <1>6 DEF PollSleeps, ListTypes
  <2>2. Goto(p, "register", "asleep") /\ UNCHANGED listsOfFiles
    BY <1>6 DEF PollSleeps
  <2>3. Listed(p)
    BY <2>2, Moves DEF WaitersListed
  <2> QED
    BY <2>1, <2>2, <2>3, ListsUntouched DEF InRead
<1>7. CASE Wakes(p)
  BY <1>7, ListsUntouched DEF Wakes, ListTypes, InRead
<1>8. CASE Killed(p)
  <2>1. /\ registered' \in [Pollers -> BOOLEAN]
        /\ \A q \in Pollers : q # p => registered'[q] = registered[q]
    BY <1>8 DEF Killed, Deregister, ListTypes
  <2>2. PICK at \in {"user", "asleep", "woken", "ready"} : Goto(p, at, "gone")
    BY <1>8 DEF Killed
  <2>3. UNCHANGED listsOfFiles
    BY <1>8 DEF Killed
  <2> QED
    BY <2>1, <2>2, <2>3, ListsUntouched DEF InRead
<1>9. CASE ReadStep(p)
  <2>1. CASE ReadLeaves(p)
    BY <2>1, LeaveKeepsLists
  <2>2. CASE ~ReadLeaves(p)
    <3>1. /\ \E from \in InRead \cup {"ready"}, to \in InRead : Goto(p, from, to)
          /\ UNCHANGED <<listsOfFiles, registered>>
      BY <1>9, <2>2 DEF ReadStep, EntersRead, ReadEnters, FirstReads, NextReads,
         ReadAllocates, ReadAllocFails, ReadFills, ReadClamps, ReadCopies,
         ReadCopied, InRead
    <3>2. PICK from \in InRead \cup {"ready"}, to \in InRead : Goto(p, from, to)
      BY <3>1
    <3>3. to \notin {"register", "asleep"}
      BY DEF InRead
    <3>4. ~Contains(blackList, p)
      BY <3>2, <3>3, Moves DEF ReadersNotBlack
    <3> QED
      BY <3>1, <3>2, <3>3, <3>4, ListsUntouched DEF ListTypes
  <2> QED
    BY <2>1, <2>2
<1>10. CASE KilledInRead(p)
  BY <1>10, ListsUntouched DEF KilledInRead, ListTypes, InRead
<1> QED
  BY <1>1, <1>2, <1>3, <1>4, <1>5, <1>6, <1>7, <1>8, <1>9, <1>10 DEF PollStep

LEMMA WriterKeepsLists ==
  ASSUME ListInv, NEW w \in Writers, WriteLocks(w) \/ WriteStep(w)
  PROVE  ListInv'
<1>1. w \in Processes /\ w \notin Pollers
  BY PollAssumption DEF Processes
<1>2. /\ \E from, to \in {"idle", "apply", "wake"} : Goto(w, from, to)
      /\ UNCHANGED <<listsOfFiles, registered>>
  BY DEF WriteLocks, WriteStep, WriteApplies, WriteIgnores, WriteWakes
<1> QED
  BY <1>1, <1>2, ListsUntouched DEF ListInv, ListTypes

LEMMA ListsStep ==
  ASSUME ListInv, [Next]_vars
  PROVE  ListInv'
<1>1. CASE Next
  BY <1>1, PollerKeepsLists, WriterKeepsLists DEF Next
<1>2. CASE UNCHANGED vars
  BY <1>2 DEF vars, ListInv, ListTypes, ListsDisjoint, ReadersNotBlack,
     WaitersListed, Listed
<1> QED
  BY <1>1, <1>2

(* ListInv is inductive by itself: neither semaphore is needed for it.     *)
THEOREM ListsInvariance == Spec => []ListInv
BY InitList, ListsStep, PTL DEF Spec

LEMMA ListsCount == ListInv => CountedOnce /\ SleepersKnown
<1> SUFFICES ASSUME ListInv PROVE CountedOnce /\ SleepersKnown
  OBVIOUS
<1>1. ASSUME NEW s \in Seq(Pollers), NEW p \in ToSet(s)
      PROVE  p \in Pollers /\ Contains(s, p)
  BY <1>1 DEF ToSet, Contains
<1>2. ToSet(pollList) \cap ToSet(blackList) = {}
  BY <1>1 DEF ListInv, ListTypes, ListsDisjoint
<1>3. SleepersKnown
  BY ContainsConcat DEF ListInv, ListTypes, WaitersListed, Listed, SleepersKnown
<1> QED
  BY <1>2, <1>3 DEF CountedOnce, ListInv, ListsDisjoint

(* A file is in one of the two lists at most and only once, so that the    *)
(* comparisons of the lists' lengths with 0 and 1 (rt_fops.c:98, 550)      *)
(* count files, with any number of pollers and in every mode.              *)
THEOREM EachFileOnce == Spec => []CountedOnce
BY ListsCount, ListsInvariance, PTL

(* No poller sleeps in select() without being in a list and on the wait    *)
(* queue: the moves between the lists (rt_fops.c:93-118, 540-557) lose     *)
(* nobody, with any number of pollers and in every mode.                   *)
THEOREM NoSleeperLost == Spec => []SleepersKnown
BY ListsCount, ListsInvariance, PTL
-----------------------------------------------------------------------------
(* Where a poller holds rt_serialize_readers_cs_sem.                       *)
Holding == {"query", "register", "snapshot", "fill", "clamp"}

(* One poller at a time holds the semaphore, and it is counted.            *)
SemInv == /\ csSem \in {0, 1} /\ rtSem = 1
          /\ \A p \in Pollers : pc[p] \in Holding => csSem = 0
          /\ \A p, q \in Pollers :
                pc[p] \in Holding /\ pc[q] \in Holding => p = q

(* One writer at a time is past down_write, while there is room to write.  *)
WriteInv == /\ \A w \in Writers : pc[w] = "apply" => rwWriter /\ written < MaxWrites
            /\ \A v, w \in Writers : pc[v] = "apply" /\ pc[w] = "apply" => v = w

PlacesOK == /\ \A p \in Pollers : pc[p] \in PollerAt
            /\ \A w \in Writers : pc[w] \in {"idle", "apply", "wake"}

DataOK == /\ TableTypeOK
          /\ triggered \in [Pollers -> BOOLEAN] /\ missed \subseteq Pollers
          /\ rwReaders \subseteq Pollers /\ rwWriter \in BOOLEAN
          /\ written \in 0 .. MaxWrites
          /\ want \in [Pollers -> Nat]
          /\ got \in [Pollers -> Seq(Pieces)]
          /\ last \in [Pollers -> 0 .. MaxWrites]

TypeInv == ListInv /\ SemInv /\ WriteInv /\ PlacesOK /\ DataOK

LEMMA TypeInvTypes == TypeInv => TypeOK
BY PollAssumption DEF TypeInv, ListInv, ListTypes, SemInv, PlacesOK, DataOK, TypeOK,
   TableTypeOK, Processes

LEMMA InitTypes == Init => TypeInv
<1> SUFFICES ASSUME Init PROVE TypeInv
  OBVIOUS
<1>1. /\ \A p \in Pollers : pc[p] = "user"
      /\ \A w \in Writers : pc[w] = "idle"
  BY PollAssumption DEF Init
<1>2. SemInv /\ WriteInv /\ PlacesOK
  BY <1>1 DEF SemInv, WriteInv, PlacesOK, PollerAt, Holding, Init, TableInit
<1>3. DataOK
  <2>1. 0 \in 0 .. MaxWrites
    BY PollAssumption
  <2>2. TableTypeOK
    BY DEF TableTypeOK, Init, TableInit
  <2>3. /\ want \in [Pollers -> Nat] /\ got \in [Pollers -> Seq(Pieces)]
        /\ last \in [Pollers -> 0 .. MaxWrites]
    BY <2>1 DEF Init
  <2> QED
    BY <2>1, <2>2, <2>3 DEF DataOK, Init
<1> QED
  BY <1>2, <1>3, InitList DEF TypeInv

(* A poller takes the semaphore, releases it, or keeps things as they are. *)
LEMMA SemStep ==
  ASSUME ListTypes, SemInv, NEW p \in Pollers, NEW from, NEW to, Goto(p, from, to),
         rtSem' = rtSem,
         \/ from \notin Holding /\ to \in Holding /\ down
         \/ from \in Holding /\ to \notin Holding /\ up
         \/ (from \in Holding <=> to \in Holding) /\ csSem' = csSem
  PROVE  SemInv'
<1>1. /\ pc[p] = from /\ pc'[p] = to
      /\ \A q \in Pollers : q # p => pc'[q] = pc[q]
  BY Moves DEF Processes
<1>2. CASE from \notin Holding /\ to \in Holding /\ down
  <2>1. csSem = 1 /\ csSem' = 0
    BY <1>2 DEF SemInv, down
  <2> QED
    BY <1>1, <2>1 DEF SemInv
<1>3. CASE from \in Holding /\ to \notin Holding /\ up
  <2>1. csSem = 0 /\ csSem' = 1
    BY <1>1, <1>3 DEF SemInv, up
  <2>2. \A q \in Pollers : pc'[q] \notin Holding
    BY <1>1, <1>3 DEF SemInv
  <2> QED
    BY <2>1, <2>2 DEF SemInv
<1>4. CASE (from \in Holding <=> to \in Holding) /\ csSem' = csSem
  BY <1>1, <1>4 DEF SemInv
<1> QED
  BY <1>2, <1>3, <1>4

LEMMA PollerKeepsSem ==
  ASSUME TypeInv, NEW p \in Pollers,
         PollEnters(p) \/ PollStep(p) \/ ReadStep(p) \/ Killed(p) \/ KilledInRead(p)
  PROVE  SemInv'
<1> USE DEF TypeInv, ListInv
<1>1. CASE PollEnters(p) \/ FirstReads(p)
  BY <1>1, SemStep DEF PollEnters, FirstReads, Holding
<1>2. CASE PollReady(p) \/ PollSleeps(p) \/ ReadClamps(p)
  BY <1>2, SemStep DEF PollReady, PollSleeps, ReadClamps, Holding
<1>3. CASE PollJoins(p) \/ PollDenied(p) \/ PollRejoins(p) \/ Wakes(p)
  BY <1>3, SemStep DEF PollJoins, PollDenied, PollRejoins, Wakes, Holding
<1>4. CASE Killed(p) \/ KilledInRead(p)
  <2>1. /\ \E at \in {"user", "asleep", "woken", "ready", "first", "exit"} :
              Goto(p, at, "gone")
        /\ UNCHANGED semVars
    BY <1>4 DEF Killed, KilledInRead
  <2> QED
    BY <2>1, SemStep DEF Holding
<1>5. CASE ReadEnters(p) \/ NextReads(p) \/ ReadAllocates(p) \/ ReadAllocFails(p)
             \/ ReadFills(p)
  BY <1>5, SemStep DEF ReadEnters, NextReads, ReadAllocates, ReadAllocFails,
     ReadFills, Holding
<1>6. CASE ReadCopies(p) \/ ReadCopied(p) \/ ReadLeaves(p)
  BY <1>6, SemStep DEF ReadCopies, ReadCopied, ReadLeaves, Holding
<1> QED
  BY <1>1, <1>2, <1>3, <1>4, <1>5, <1>6 DEF PollStep, ReadStep, EntersRead

LEMMA PollerKeepsPlaces ==
  ASSUME TypeInv, NEW p \in Pollers,
         PollEnters(p) \/ PollStep(p) \/ ReadStep(p) \/ Killed(p) \/ KilledInRead(p)
  PROVE  PlacesOK' /\ WriteInv'
<1>1. /\ \E from, to \in PollerAt : Goto(p, from, to)
      /\ UNCHANGED <<rwWriter, written>>
  BY DEF PollEnters, PollStep, PollReady, PollJoins, PollDenied, PollRejoins,
     PollSleeps, Wakes, ReadStep, EntersRead, ReadEnters, FirstReads, NextReads,
     ReadAllocates, ReadAllocFails, ReadFills, ReadClamps, ReadCopies, ReadCopied,
     ReadLeaves, Killed, KilledInRead, PollerAt, InRead
<1>2. p \in Processes /\ p \notin Writers
  BY PollAssumption DEF Processes
<1>3. /\ pc'[p] \in PollerAt
      /\ \A q \in Pollers \cup Writers : q # p => pc'[q] = pc[q]
  BY <1>1, <1>2 DEF Goto, TypeInv, ListInv, ListTypes, Processes
<1> QED
  BY <1>1, <1>2, <1>3 DEF TypeInv, PlacesOK, WriteInv

LEMMA PollerKeepsData ==
  ASSUME TypeInv, NEW p \in Pollers,
         PollEnters(p) \/ PollStep(p) \/ ReadStep(p) \/ Killed(p) \/ KilledInRead(p)
  PROVE  DataOK'
<1> USE DEF TypeInv, DataOK, TableTypeOK
<1>0. Copiers = Pollers
  BY PollAssumption
<1>1. CASE PollEnters(p) \/ PollReady(p) \/ PollJoins(p) \/ PollDenied(p)
             \/ PollRejoins(p) \/ PollSleeps(p) \/ Wakes(p)
  <2>1. UNCHANGED <<listVars, vectorVars, rwVars, written, readVars>>
    BY <1>1 DEF PollEnters, PollReady, PollJoins, PollDenied, PollRejoins, PollSleeps, Wakes
  <2>2. csSem' \in Nat /\ rtSem' \in Nat
    BY PollerKeepsSem, <1>1 DEF SemInv, PollStep
  <2>3. triggered' \in [Pollers -> BOOLEAN] /\ missed' \subseteq Pollers
    BY <1>1 DEF PollEnters, PollReady, PollJoins, PollDenied, PollRejoins,
       PollSleeps, Wakes, Deregister
  <2> QED
    BY <2>1, <2>2, <2>3
<1>2. CASE Killed(p) \/ KilledInRead(p)
  <2>1. UNCHANGED <<tableVars, rwVars, written, readVars>>
    BY <1>2 DEF Killed, KilledInRead
  <2>2. triggered' \in [Pollers -> BOOLEAN] /\ missed' \subseteq Pollers
    BY <1>2 DEF Killed, KilledInRead, Deregister
  <2> QED
    BY <2>1, <2>2
<1>3. CASE ReadEnters(p) \/ EntersRead(p)
  <2>1. UNCHANGED <<listVars, vectorVars, waitVars, rwWriter, written, readVars>>
    BY <1>3 DEF ReadEnters, EntersRead, FirstReads, NextReads
  <2>2. rwReaders' \subseteq Pollers
    BY <1>3 DEF ReadEnters, EntersRead, FirstReads, NextReads
  <2>3. csSem' \in Nat /\ rtSem' \in Nat
    <3>1. csSem' \in {csSem, csSem - 1} /\ (csSem' # csSem => csSem > 0) /\ rtSem' = rtSem
      BY <1>3 DEF ReadEnters, EntersRead, FirstReads, NextReads, down
    <3> QED
      BY <3>1
  <2> QED
    BY <2>1, <2>2, <2>3
<1>4. CASE ReadAllocates(p)
  <2>1. PICK v \in Available :
          /\ vec' = v /\ hold' = [hold EXCEPT ![p] = v]
          /\ body' = [body EXCEPT ![v] = <<>>] /\ freed' = freed \ {v}
    BY <1>4 DEF ReadAllocates, AllocateVector
  <2>2. /\ vec' \in Vectors \cup {Null} /\ hold' \in [Copiers -> Vectors \cup {Null}]
        /\ body' \in [Vectors -> Seq(Updates)] /\ freed' \subseteq Vectors
    <3>1. v \in Vectors /\ hold \in [Copiers -> Vectors \cup {Null}]
      BY DEF Available
    <3>2. hold' \in [Copiers -> Vectors \cup {Null}]
      BY <2>1, <3>1
    <3>3. <<>> \in Seq(Updates) /\ body' \in [Vectors -> Seq(Updates)]
      BY <2>1, <3>1
    <3> QED
      BY <2>1, <3>1, <3>2, <3>3
  <2>3. UNCHANGED <<listVars, vecCount, semVars, waitVars, rwVars, written, readVars>>
    BY <1>4 DEF ReadAllocates
  <2> QED
    BY <2>2, <2>3
<1>9. CASE ReadAllocFails(p)
  BY <1>9 DEF ReadAllocFails, NoVector
<1>5. CASE ReadFills(p)
  <2>1. Len(changes) \in Nat /\ SubSeq(changes, 1, Len(changes)) \in Seq(Updates)
    OBVIOUS
  <2> QED
    BY <1>5, <2>1 DEF ReadFills, FillVector
<1>6. CASE ReadClamps(p)
  <2>1. vecCount' \in Nat
    BY <1>6, TableAssumption DEF ReadClamps, Least
  <2>2. csSem' \in Nat /\ rtSem' \in Nat
    BY <1>6 DEF ReadClamps, up
  <2>3. UNCHANGED <<listVars, vec, body, freed, hold, waitVars, rwVars, written, readVars>>
    BY <1>6 DEF ReadClamps
  <2> QED
    BY <2>1, <2>2, <2>3
<1>10. CASE ReadCopies(p)
  BY <1>10 DEF ReadCopies
<1>7. CASE ReadCopied(p)
  <2>1. Copied(p, want[p]) \in Seq(Pieces)
    <3>1. hold[p] # Null => body[hold[p]] \in Seq(Updates)
      BY <1>0
    <3> QED
      BY <3>1, CopiedType
  <2> QED
    BY <1>7, <2>1 DEF ReadCopied
<1>8. CASE ReadLeaves(p)
  <2>1. got[p] # <<>> => got[p][1].update \in 0 .. MaxWrites
    <3> DEFINE g == got[p]
    <3>1. g \in Seq(Pieces)
      OBVIOUS
    <3> HIDE DEF g
    <3>2. ASSUME g # <<>> PROVE g[1] \in Pieces
      <4>1. 1 \in 1 .. Len(g)
        BY <3>1, <3>2, EmptySeq
      <4> QED
        BY <3>1, <4>1, ElementOfSeq
    <3> QED
      BY <3>2, PollAssumption DEF g, Pieces
  <2>2. last' \in [Pollers -> 0 .. MaxWrites]
    BY <1>8, <2>1 DEF ReadLeaves
  <2>3. TableTypeOK'
    <3>1. UNCHANGED <<table, vec, body, hold, semVars>>
      BY <1>8 DEF ReadLeaves, rt_empty_change_list, FreeVectorOnly
    <3>4. vecCount' \in Nat
      BY <1>8 DEF ReadLeaves
    <3>2. changes' \in Seq(Updates)
      <4>1. changes' = changes \/ changes' = <<>>
        BY <1>8 DEF ReadLeaves, rt_empty_change_list
      <4> QED
        BY <4>1, EmptySeq
    <3>3. freed' \subseteq Vectors
      BY <1>8 DEF ReadLeaves, FreeVectorOnly
    <3> QED
      BY <3>1, <3>2, <3>3, <3>4
  <2> QED
    BY <1>8, <2>2, <2>3 DEF ReadLeaves
<1> QED
  BY <1>1, <1>2, <1>3, <1>4, <1>5, <1>6, <1>7, <1>8, <1>9, <1>10
     DEF PollStep, ReadStep

LEMMA WriterKeepsTypes ==
  ASSUME TypeInv, NEW w \in Writers, WriteLocks(w) \/ WriteStep(w)
  PROVE  SemInv' /\ WriteInv' /\ PlacesOK' /\ DataOK'
<1>1. w \in Processes /\ w \notin Pollers
  BY PollAssumption DEF Processes
<1>2. PICK from \in {"idle", "apply", "wake"}, to \in {"idle", "apply", "wake"} :
        Goto(w, from, to)
  BY DEF WriteLocks, WriteStep, WriteApplies, WriteIgnores, WriteWakes
<1>3. /\ pc'[w] = to
      /\ \A q \in Pollers \cup Writers : q # w => pc'[q] = pc[q]
  BY <1>1, <1>2 DEF Goto, TypeInv, ListInv, ListTypes, Processes
<1>4. SemInv' /\ PlacesOK'
  <2>1. UNCHANGED semVars
    BY DEF WriteLocks, WriteStep, WriteApplies, WriteIgnores, WriteWakes,
       add_rt_table_entry_by_val
  <2> QED
    BY <1>1, <1>2, <1>3, <2>1 DEF TypeInv, SemInv, PlacesOK
<1>5. CASE WriteLocks(w)
  <2>1. DataOK'
    BY <1>5 DEF WriteLocks, TypeInv, DataOK, TableTypeOK
  <2>2. WriteInv'
    BY <1>3, <1>5 DEF WriteLocks, TypeInv, WriteInv
  <2> QED
    BY <1>4, <2>1, <2>2
<1>6. CASE WriteApplies(w)
  <2>1. pc[w] = "apply" /\ pc'[w] = "wake"
    BY <1>1, <1>6, Moves DEF WriteApplies, TypeInv, ListInv
  <2>2. written + 1 \in Updates /\ written + 1 \in 0 .. MaxWrites
    BY <2>1, PollAssumption DEF TypeInv, WriteInv, DataOK
  <2>3. table' \subseteq Updates /\ changes' \in Seq(Updates)
    BY <1>6, <2>2 DEF WriteApplies, add_rt_table_entry_by_val, TypeInv, DataOK, TableTypeOK
  <2>4. DataOK'
    BY <1>6, <2>2, <2>3 DEF WriteApplies, TypeInv, DataOK, TableTypeOK
  <2>5. WriteInv'
    BY <1>3, <2>1 DEF TypeInv, WriteInv
  <2> QED
    BY <1>4, <2>4, <2>5
<1>7. CASE WriteIgnores(w) \/ WriteWakes(w)
  <2>1. DataOK'
    BY <1>7 DEF WriteIgnores, WriteWakes, TypeInv, DataOK, TableTypeOK
  <2>2. /\ pc'[w] # "apply" /\ written' = written
        /\ pc[w] = "apply" \/ rwWriter' = rwWriter
    BY <1>1, <1>7, Moves DEF WriteIgnores, WriteWakes, TypeInv, ListInv
  <2>3. WriteInv'
    BY <1>3, <2>2 DEF TypeInv, WriteInv
  <2> QED
    BY <1>4, <2>1, <2>3
<1> QED
  BY <1>5, <1>6, <1>7 DEF WriteStep

LEMMA TypesStep ==
  ASSUME TypeInv, [Next]_vars
  PROVE  TypeInv'
<1>1. ListInv'
  BY ListsStep DEF TypeInv
<1>2. CASE Next
  <2>1. SemInv' /\ WriteInv' /\ PlacesOK' /\ DataOK'
    BY <1>2, PollerKeepsSem, PollerKeepsPlaces, PollerKeepsData, WriterKeepsTypes DEF Next
  <2> QED
    BY <1>1, <2>1 DEF TypeInv
<1>3. CASE UNCHANGED vars
  <2>1. SemInv' /\ WriteInv' /\ PlacesOK' /\ DataOK'
    BY <1>3 DEF vars, TypeInv, SemInv, WriteInv, PlacesOK, DataOK, TableTypeOK
  <2> QED
    BY <1>1, <2>1 DEF TypeInv
<1> QED
  BY <1>2, <1>3

(* Processes stay in their handlers, rt_serialize_readers_cs_sem is held   *)
(* by one poller at a time and released once, and writers add one at a     *)
(* time, with any number of pollers and in every mode.                     *)
THEOREM Typing == Spec => []TypeOK
BY InitTypes, TypesStep, TypeInvTypes, PTL DEF Spec
-----------------------------------------------------------------------------
(* From here on updates are paced, and no poller is killed or non-blocking.*)
PacedMode == Paced /\ NonBlock = {} /\ Signalled = {}

(* Every poller is in the list of those that wait for an update.           *)
Counted == \A p \in Pollers : Contains(pollList, p)

(* A reader is one of those an update waits for, and there is one; every   *)
(* poller is in a list while there is an update, and all are waiting for   *)
(* one while a writer is at work; readers and writers exclude each other.  *)
PacedInv ==
    /\ \A p \in Pollers :
          /\ pc[p] \in InRead \cup {"ready"} => Contains(pollList, p) /\ changes # <<>>
          /\ pc[p] \in InRead => p \in rwReaders /\ ~rwWriter
    /\ changes # <<>> => \A p \in Pollers : Listed(p)
    /\ \A w \in Writers : pc[w] = "apply" => Counted

LEMMA JoinedLists ==
  ASSUME ListInv, NEW p \in Pollers, PollJoins(p)
  PROVE  /\ \A q \in Pollers : Contains(pollList', q) <=> Contains(pollList, q) \/ q = p
         /\ blackList' = blackList
BY PushProperties DEF PollJoins, add_rt_table_unique_poll_reader, ListInv, ListTypes,
   ListsDisjoint

LEMMA LeftLists ==
  ASSUME ListInv, NEW p \in Pollers, ReadLeaves(p)
  PROVE  /\ \A q \in Pollers : Contains(pollList', q) <=> Contains(pollList, q) /\ q # p
         /\ \A q \in Pollers : Contains(blackList', q) <=> Contains(blackList, q) \/ q = p
<1>1. ~Contains(blackList, p)
  <2>1. pc[p] = "exit"
    BY DEF ReadLeaves, Goto
  <2> QED
    BY <2>1 DEF ListInv, ReadersNotBlack, InRead
<1> QED
  BY <1>1, RemoveFirstProperties, PushProperties DEF ReadLeaves, ListInv, ListTypes, ListsDisjoint

(* A reader that finds one file in the list and is in the list is alone.   *)
LEMMA LastIsAlone ==
  ASSUME ListInv, IsLastReader, NEW p \in Pollers, NEW q \in Pollers,
         Contains(pollList, p), Contains(pollList, q)
  PROVE  p = q
BY DEF IsLastReader, Contains

(* Where a poller's step takes it.                                         *)
LEMMA PollerMoves ==
  ASSUME TypeInv, NEW p \in Pollers, NEW from, NEW to, Goto(p, from, to)
  PROVE  /\ pc[p] = from /\ pc'[p] = to
         /\ \A q \in (Pollers \cup Writers) \ {p} : pc'[q] = pc[q]
         /\ \A w \in Writers : pc'[w] = pc[w]
BY PollAssumption DEF Goto, TypeInv, ListInv, ListTypes, Processes

LEMMA PollPaces ==
  ASSUME NonBlock = {}, TypeInv, PacedInv, NEW p \in Pollers, PollEnters(p) \/ PollStep(p)
  PROVE  PacedInv'
<1> USE DEF TypeInv, PacedInv, Counted
<1>1. CASE PollEnters(p) \/ PollDenied(p) \/ PollSleeps(p) \/ Wakes(p)
  <2>1. /\ \E from, to \in {"user", "woken", "query", "register", "asleep"} : Goto(p, from, to)
        /\ UNCHANGED <<changes, listsOfFiles, rwVars>>
    BY <1>1 DEF PollEnters, PollDenied, PollSleeps, Wakes
  <2> QED
    BY <2>1, PollerMoves DEF InRead, Listed
<1>2. CASE PollReady(p)
  <2>1. /\ Goto(p, "query", "ready") /\ changes # <<>> /\ ~Contains(blackList, p)
        /\ UNCHANGED <<changes, listsOfFiles, rwVars>>
    BY <1>2 DEF PollReady, Updated
  <2> QED
    BY <2>1, PollerMoves DEF InRead, Listed
<1>3. CASE PollJoins(p)
  <2>1. /\ Goto(p, "query", "register") /\ changes = <<>>
        /\ UNCHANGED <<changes, rwVars>>
    BY <1>3 DEF PollJoins, Updated
  <2> QED
    BY <1>3, <2>1, JoinedLists, PollerMoves DEF InRead, Listed
<1>4. CASE PollRejoins(p)
  <2>1. /\ Goto(p, "query", "register") /\ changes = <<>>
        /\ UNCHANGED <<changes, rwVars>>
        /\ pollList = <<>> \/ pollList' = pollList
    BY <1>4 DEF PollRejoins, Updated
  <2>2. \A w \in Writers : pc[w] # "apply" \/ pollList' = pollList
    BY <2>1 DEF Contains
  <2> QED
    BY <2>1, <2>2, PollerMoves DEF InRead
<1> QED
  BY <1>1, <1>2, <1>3, <1>4 DEF PollStep

LEMMA ReadPaces ==
  ASSUME TypeInv, PacedInv, NEW p \in Pollers, ReadStep(p)
  PROVE  PacedInv'
<1> USE DEF TypeInv, PacedInv, Counted
<1>1. CASE ReadEnters(p)
  <2>1. /\ Goto(p, "ready", "first") /\ ~rwWriter /\ rwReaders' = rwReaders \cup {p}
        /\ UNCHANGED <<changes, listsOfFiles, rwWriter>>
    BY <1>1 DEF ReadEnters
  <2> QED
    BY <2>1, PollerMoves DEF InRead, Listed
<1>2. CASE ReadLeaves(p)
  <2>1. /\ Goto(p, "exit", "user") /\ rwReaders' = rwReaders \ {p} /\ rwWriter' = rwWriter
        /\ changes' = changes \/ (IsLastReader /\ changes' = <<>>)
    BY <1>2 DEF ReadLeaves, rt_empty_change_list
  <2>2. pc[p] = "exit" /\ "exit" \in InRead
    BY <2>1, PollerMoves DEF InRead
  <2>3. \A w \in Writers : pc'[w] # "apply"
    BY <2>1, <2>2, PollerMoves DEF WriteInv
  <2>4. ASSUME NEW q \in Pollers, pc'[q] \in InRead \cup {"ready"}
        PROVE  /\ Contains(pollList', q) /\ changes' # <<>>
               /\ pc[q] = pc'[q] /\ q # p
    <3>1. q # p /\ pc[q] = pc'[q]
      BY <2>1, <2>4, PollerMoves DEF InRead
    <3>2. Contains(pollList, q) /\ Contains(pollList, p) /\ changes # <<>>
      BY <2>2, <2>4, <3>1
    <3>3. ~IsLastReader
      BY <3>1, <3>2, LastIsAlone
    <3> QED
      BY <1>2, <2>1, <3>1, <3>2, <3>3, LeftLists
  <2>5. changes' # <<>> => \A q \in Pollers : Listed(q)'
    BY <1>2, <2>1, LeftLists DEF Listed
  <2> QED
    BY <2>1, <2>3, <2>4, <2>5
<1>3. CASE ~ReadEnters(p) /\ ~ReadLeaves(p)
  <2>1. /\ \E from, to \in InRead : Goto(p, from, to)
        /\ UNCHANGED <<changes, listsOfFiles, rwVars>>
    BY <1>3 DEF ReadStep, EntersRead, FirstReads, NextReads, ReadAllocates,
       ReadAllocFails, ReadFills, ReadClamps, ReadCopies, ReadCopied, InRead
  <2> QED
    BY <2>1, PollerMoves DEF Listed
<1> QED
  BY <1>1, <1>2, <1>3

LEMMA WritePaces ==
  ASSUME TypeInv, PacedInv, NEW w \in Writers, (WriteLocks(w) /\ Counted) \/ WriteStep(w)
  PROVE  PacedInv'
<1> USE DEF TypeInv, PacedInv, Counted
<1>0. w \in Processes /\ w \notin Pollers
  BY PollAssumption DEF Processes
<1>1. /\ \A p \in Pollers : pc'[p] = pc[p]
      /\ \A v \in Writers \ {w} : pc'[v] = pc[v]
      /\ UNCHANGED <<listsOfFiles, rwReaders>>
  BY <1>0 DEF WriteLocks, WriteStep, WriteApplies, WriteIgnores, WriteWakes, Goto,
     ListInv, ListTypes, Processes
<1>2. CASE WriteLocks(w) /\ Counted
  <2>1. /\ rwReaders = {} /\ changes' = changes
        /\ \A p \in Pollers : Contains(pollList, p)
    BY <1>2 DEF WriteLocks
  <2> QED
    BY <1>1, <2>1 DEF Listed
<1>3. CASE WriteApplies(w)
  <2>1. /\ pc[w] = "apply" /\ pc'[w] = "wake" /\ rwWriter' = FALSE
        /\ changes' = <<written + 1>> \o changes
    BY <1>0, <1>3, Moves DEF WriteApplies, add_rt_table_entry_by_val, ListInv
  <2>2. changes' # <<>>
    BY <2>1 DEF DataOK, TableTypeOK
  <2> QED
    BY <1>1, <2>1, <2>2 DEF Listed
<1>4. CASE WriteIgnores(w) \/ WriteWakes(w)
  <2>1. /\ pc'[w] # "apply" /\ changes' = changes
        /\ rwWriter' = FALSE \/ rwWriter' = rwWriter
    BY <1>0, <1>4, Moves DEF WriteIgnores, WriteWakes, ListInv
  <2> QED
    BY <1>1, <2>1 DEF Listed
<1> QED
  BY <1>2, <1>3, <1>4 DEF WriteStep

LEMMA PacedStep ==
  ASSUME PacedMode, TypeInv, PacedInv, [Next]_vars
  PROVE  PacedInv'
<1>1. CASE Next
  <2>1. /\ NonBlock = {} /\ \A p \in Pollers : ~Killed(p) /\ ~KilledInRead(p)
        /\ \A w \in Writers : WriteLocks(w) => Counted
    BY DEF Killed, KilledInRead, PacedMode, WriteLocks, Quiet, Counted
  <2> QED
    BY <1>1, <2>1, PollPaces, ReadPaces, WritePaces DEF Next
<1>2. CASE UNCHANGED vars
  BY <1>2 DEF vars, PacedInv, Counted, Listed
<1> QED
  BY <1>1, <1>2

LEMMA InitPaced == Init => PacedInv
BY PollAssumption DEF Init, TableInit, PacedInv, Counted, InRead
-----------------------------------------------------------------------------
(* A vector that has anything in it is live, and so is the one that is     *)
(* being filled, and the ones that are being copied from.                  *)
LiveInv == /\ vecCount > 0 => vec \notin freed
           /\ \A p \in Pollers : pc[p] = "fill" => vec \notin freed
           /\ \A p \in Pollers : want[p] > 0 => pc[p] = "copying" /\ hold[p] \notin freed

LEMMA ReadKeepsLive ==
  ASSUME TypeInv, PacedInv, LiveInv, NEW p \in Pollers, ReadStep(p)
  PROVE  LiveInv'
<1> USE DEF TypeInv, LiveInv
<1>0. Copiers = Pollers
  BY PollAssumption
<1>1. CASE ReadEnters(p) \/ EntersRead(p)
  <2>1. /\ \E from \in {"ready", "first"}, to \in {"first", "snapshot", "copy"} : Goto(p, from, to)
        /\ UNCHANGED <<vectorVars, readVars>>
    BY <1>1 DEF ReadEnters, EntersRead, FirstReads, NextReads
  <2> QED
    BY <2>1, PollerMoves
<1>2. CASE ReadAllocates(p)
  <2>1. PICK v \in Available :
          vec' = v /\ hold' = [hold EXCEPT ![p] = v] /\ freed' = freed \ {v}
    BY <1>2 DEF ReadAllocates, AllocateVector
  <2>2. Goto(p, "snapshot", "fill") /\ UNCHANGED <<vecCount, readVars>>
    BY <1>2 DEF ReadAllocates
  <2>3. ~(want[p] > 0)
    BY <2>2, PollerMoves
  <2>4. \A q \in Pollers \ {p} : hold'[q] = hold[q]
    BY <1>0, <2>1 DEF DataOK, TableTypeOK
  <2> QED
    BY <2>1, <2>2, <2>3, <2>4, PollerMoves
<1>3. CASE ReadAllocFails(p)
  <2>1. /\ Goto(p, "snapshot", "clamp") /\ vecCount' = 0
        /\ UNCHANGED <<freed, hold, readVars>>
    BY <1>3 DEF ReadAllocFails, NoVector
  <2>2. \A q \in Pollers : pc'[q] # "fill"
    BY <2>1, PollerMoves DEF SemInv, Holding
  <2> QED
    BY <2>1, <2>2, PollerMoves
<1>4. CASE ReadFills(p)
  <2>1. /\ Goto(p, "fill", "clamp") /\ hold' = [hold EXCEPT ![p] = Null]
        /\ UNCHANGED <<vec, freed, readVars>>
    BY <1>4 DEF ReadFills, FillVector
  <2>2. ~(want[p] > 0)
    BY <2>1, PollerMoves
  <2>3. \A q \in Pollers \ {p} : hold'[q] = hold[q]
    BY <1>0, <2>1 DEF DataOK, TableTypeOK
  <2> QED
    BY <2>1, <2>2, <2>3, PollerMoves
<1>5. CASE ReadClamps(p)
  <2>1. /\ Goto(p, "clamp", "copy") /\ vecCount' = Least(vecCount, MaxFetch)
        /\ UNCHANGED <<vec, freed, hold, readVars>>
    BY <1>5 DEF ReadClamps
  <2>2. vecCount' > 0 => vecCount > 0
    BY <2>1, TableAssumption DEF DataOK, TableTypeOK, Least
  <2> QED
    BY <2>1, <2>2, PollerMoves
<1>6. CASE ReadCopies(p)
  <2>1. /\ Goto(p, "copy", "copying") /\ UNCHANGED <<vec, vecCount, freed>>
        /\ hold' = [hold EXCEPT ![p] = vec] /\ want' = [want EXCEPT ![p] = vecCount]
    BY <1>6 DEF ReadCopies
  <2>2. /\ pc'[p] = "copying" /\ \A q \in Pollers \ {p} : pc'[q] = pc[q]
        /\ want'[p] = vecCount /\ hold'[p] = vec
        /\ \A q \in Pollers \ {p} : want'[q] = want[q] /\ hold'[q] = hold[q]
    BY <1>0, <2>1, PollerMoves DEF DataOK, TableTypeOK
  <2> QED
    BY <2>1, <2>2
<1>7. CASE ReadCopied(p)
  <2>1. /\ Goto(p, "copying", "exit") /\ UNCHANGED <<vec, vecCount, freed>>
        /\ hold' = [hold EXCEPT ![p] = Null] /\ want' = [want EXCEPT ![p] = 0]
    BY <1>7 DEF ReadCopied
  <2>2. /\ ~(want'[p] > 0)
        /\ \A q \in Pollers \ {p} : hold'[q] = hold[q] /\ want'[q] = want[q]
    BY <1>0, <2>1 DEF DataOK, TableTypeOK
  <2> QED
    BY <2>1, <2>2, PollerMoves
<1>8. CASE ReadLeaves(p)
  <2>1. /\ Goto(p, "exit", "user") /\ csSem > 0 /\ UNCHANGED <<vec, hold, want>>
        /\ \/ UNCHANGED <<vecCount, freed>>
           \/ IsLastReader /\ vecCount' = 0
    BY <1>8 DEF ReadLeaves, FreeVectorOnly
  <2>2. \A q \in Pollers : pc'[q] # "fill"
    BY <2>1, PollerMoves DEF SemInv, Holding
  <2>3. CASE UNCHANGED <<vecCount, freed>>
    BY <2>1, <2>2, <2>3, PollerMoves
  <2>4. CASE IsLastReader /\ vecCount' = 0
    <3>1. pc[p] = "exit"
      BY <2>1, PollerMoves
    <3>2. ASSUME NEW q \in Pollers PROVE ~(want[q] > 0)
      <4>1. CASE pc[q] = "copying"
        <5>1. Contains(pollList, p) /\ Contains(pollList, q)
          BY <3>1, <4>1 DEF PacedInv, InRead
        <5> QED
          BY <2>4, <3>1, <4>1, <5>1, LastIsAlone
      <4> QED
        BY <4>1
    <3> QED
      BY <2>1, <2>2, <2>4, <3>2
  <2> QED
    BY <2>1, <2>3, <2>4
<1> QED
  BY <1>1, <1>2, <1>3, <1>4, <1>5, <1>6, <1>7, <1>8 DEF ReadStep

LEMMA PollKeepsLive ==
  ASSUME TypeInv, LiveInv, NEW p \in Pollers, PollEnters(p) \/ PollStep(p)
  PROVE  LiveInv'
<1>1. /\ \E from \in PollerAt \ {"copying"}, to \in PollerAt \ InRead : Goto(p, from, to)
      /\ UNCHANGED <<vectorVars, readVars>>
  BY DEF PollEnters, PollStep, PollReady, PollJoins, PollDenied, PollRejoins,
     PollSleeps, Wakes, PollerAt, InRead
<1> QED
  BY <1>1, PollerMoves DEF LiveInv, InRead

LEMMA WriteKeepsLive ==
  ASSUME TypeInv, LiveInv, NEW w \in Writers, WriteLocks(w) \/ WriteStep(w)
  PROVE  LiveInv'
<1>1. w \in Processes /\ w \notin Pollers
  BY PollAssumption DEF Processes
<1>2. /\ \A p \in Pollers : pc'[p] = pc[p]
      /\ UNCHANGED <<vectorVars, readVars>>
  BY <1>1 DEF WriteLocks, WriteStep, WriteApplies, WriteIgnores, WriteWakes, Goto,
     add_rt_table_entry_by_val, TypeInv, ListInv, ListTypes, Processes
<1> QED
  BY <1>2 DEF LiveInv

LEMMA LiveStep ==
  ASSUME PacedMode, TypeInv, PacedInv, LiveInv, [Next]_vars
  PROVE  LiveInv'
<1>1. CASE Next
  <2>1. \A p \in Pollers : ~Killed(p) /\ ~KilledInRead(p)
    BY DEF Killed, KilledInRead, PacedMode
  <2> QED
    BY <1>1, <2>1, PollKeepsLive, ReadKeepsLive, WriteKeepsLive DEF Next
<1>2. CASE UNCHANGED vars
  BY <1>2 DEF vars, LiveInv
<1> QED
  BY <1>1, <1>2

LEMMA InitLive == Init => LiveInv
BY PollAssumption DEF Init, TableInit, LiveInv

LEMMA LiveCopies == LiveInv => CopiesLive
BY DEF LiveInv, CopiesLive

(* With any number of pollers, preempted or not, and failing allocations,  *)
(* no poller copies out of a vector that the last reader has freed         *)
(* (rt_fops.c:92, 104), if updates are paced.                              *)
THEOREM VectorsStayLive == PacedMode => (Spec => []CopiesLive)
<1> SUFFICES ASSUME PacedMode PROVE Spec => []CopiesLive
  OBVIOUS
<1>1. TypeInv /\ PacedInv /\ LiveInv /\ [Next]_vars => TypeInv' /\ PacedInv' /\ LiveInv'
  BY TypesStep, PacedStep, LiveStep
<1> QED
  BY InitTypes, InitPaced, InitLive, LiveCopies, <1>1, PTL DEF Spec

(* From the end of the first reader's snapshot to the last reader's        *)
(* leaving the pointer is not one to a freed vector.                       *)
FreshInv ==
    /\ (\E p \in Pollers : pc[p] \in {"clamp", "copy", "copying", "exit"}) => vec \notin freed
    /\ blackList # <<>> /\ changes # <<>> => vec \notin freed

(* A list that is not empty contains a poller.                             *)
LEMMA NotEmpty ==
  ASSUME NEW s \in Seq(Pollers), s # <<>>
  PROVE  \E p \in Pollers : Contains(s, p)
<1>1. 1 \in 1 .. Len(s) /\ s[1] \in Pollers
  OBVIOUS
<1> QED
  BY <1>1 DEF Contains

LEMMA ReadKeepsFresh ==
  ASSUME TypeInv, PacedInv, PacedInv', LiveInv, FreshInv, NEW p \in Pollers, ReadStep(p)
  PROVE  FreshInv'
<1> USE DEF TypeInv, FreshInv
<1>1. CASE ReadEnters(p) \/ FirstReads(p) \/ NextReads(p)
  <2>1. /\ \E from \in {"ready", "first"}, to \in {"first", "snapshot", "copy"} :
              /\ Goto(p, from, to)
              /\ to = "copy" => from = "first" /\ blackList # <<>>
        /\ UNCHANGED <<vec, freed, changes, blackList>>
    BY <1>1 DEF ReadEnters, FirstReads, NextReads
  <2>2. pc[p] = "first" => changes # <<>>
    BY DEF PacedInv, InRead
  <2> QED
    BY <2>1, <2>2, PollerMoves
<1>2. CASE ReadAllocates(p)
  <2>1. vec' \notin freed'
    BY <1>2 DEF ReadAllocates, AllocateVector
  <2> QED
    BY <2>1
<1>3. CASE ReadAllocFails(p)
  <2>1. vec' \notin freed'
    BY <1>3, TableAssumption DEF ReadAllocFails, NoVector, DataOK, TableTypeOK
  <2> QED
    BY <2>1
<1>4. CASE ReadFills(p) \/ ReadClamps(p) \/ ReadCopies(p) \/ ReadCopied(p)
  <2>1. /\ pc[p] \in {"fill", "clamp", "copy", "copying"}
        /\ UNCHANGED <<vec, freed>>
    BY <1>4 DEF ReadFills, FillVector, ReadClamps, ReadCopies, ReadCopied, Goto
  <2>2. vec \notin freed
    BY <2>1 DEF LiveInv
  <2> QED
    BY <2>1, <2>2
<1>5. CASE ReadLeaves(p)
  <2>1. /\ pc[p] = "exit" /\ vec' = vec
        /\ \/ UNCHANGED <<changes, freed>>
           \/ changes' = <<>>
    BY <1>5 DEF ReadLeaves, Goto, rt_empty_change_list, FreeVectorOnly
  <2>2. CASE UNCHANGED <<changes, freed>>
    BY <2>1, <2>2
  <2>3. CASE changes' = <<>>
    <3>1. \A q \in Pollers : pc'[q] \notin InRead
      BY <2>3 DEF PacedInv
    <3> QED
      BY <2>3, <3>1 DEF InRead
  <2> QED
    BY <2>1, <2>2, <2>3
<1> QED
  BY <1>1, <1>2, <1>3, <1>4, <1>5 DEF ReadStep, EntersRead

LEMMA PollKeepsFresh ==
  ASSUME TypeInv, FreshInv, NEW p \in Pollers, PollEnters(p) \/ PollStep(p)
  PROVE  FreshInv'
<1>1. /\ \E from \in PollerAt, to \in PollerAt \ InRead : Goto(p, from, to)
      /\ UNCHANGED <<vec, freed, changes>>
      /\ blackList' = blackList \/ changes = <<>>
  BY DEF PollEnters, PollStep, PollReady, PollJoins, PollDenied, PollRejoins,
     PollSleeps, Wakes, PollerAt, InRead, Updated
<1> QED
  BY <1>1, PollerMoves DEF FreshInv, InRead

LEMMA WriteKeepsFresh ==
  ASSUME TypeInv, PacedInv, FreshInv, NEW w \in Writers, WriteLocks(w) \/ WriteStep(w)
  PROVE  FreshInv'
<1>1. w \in Processes /\ w \notin Pollers
  BY PollAssumption DEF Processes
<1>2. /\ \A p \in Pollers : pc'[p] = pc[p]
      /\ UNCHANGED <<vec, freed, blackList>>
      /\ changes' = changes \/ pc[w] = "apply"
  BY <1>1 DEF WriteLocks, WriteStep, WriteApplies, WriteIgnores, WriteWakes, Goto,
     add_rt_table_entry_by_val, TypeInv, ListInv, ListTypes, Processes
<1>3. ASSUME pc[w] = "apply" PROVE blackList = <<>>
  <2>1. \A p \in Pollers : ~Contains(blackList, p)
    BY <1>3 DEF PacedInv, Counted, TypeInv, ListInv, ListsDisjoint
  <2> QED
    BY <2>1, NotEmpty DEF TypeInv, ListInv, ListTypes
<1> QED
  BY <1>2, <1>3 DEF FreshInv

LEMMA FreshStep ==
  ASSUME PacedMode, TypeInv, PacedInv, PacedInv', LiveInv, FreshInv, [Next]_vars
  PROVE  FreshInv'
<1>1. CASE Next
  <2>1. \A p \in Pollers : ~Killed(p) /\ ~KilledInRead(p)
    BY DEF Killed, KilledInRead, PacedMode
  <2> QED
    BY <1>1, <2>1, PollKeepsFresh, ReadKeepsFresh, WriteKeepsFresh DEF Next
<1>2. CASE UNCHANGED vars
  BY <1>2 DEF vars, FreshInv
<1> QED
  BY <1>1, <1>2

LEMMA InitFresh == Init => FreshInv
BY PollAssumption DEF Init, TableInit, FreshInv

(* With any number of pollers, preempted or not, and failing allocations,  *)
(* the reader that frees the vector as the last finds it live: rt_read     *)
(* leaves the pointer to the vector it has freed (rt_fops.c:104), and      *)
(* nobody frees it again, if updates are paced.                            *)
THEOREM VectorsFreedOnce == PacedMode => (Spec => []FreedOnce)
<1> SUFFICES ASSUME PacedMode PROVE Spec => []FreedOnce
  OBVIOUS
<1>1. /\ TypeInv /\ PacedInv /\ LiveInv /\ [Next]_vars => TypeInv' /\ PacedInv' /\ LiveInv'
      /\ TypeInv /\ PacedInv /\ PacedInv' /\ LiveInv /\ FreshInv /\ [Next]_vars => FreshInv'
  BY TypesStep, PacedStep, LiveStep, FreshStep
<1>2. FreshInv => FreedOnce
  BY DEF FreshInv, FreedOnce
<1> QED
  BY InitTypes, InitPaced, InitLive, InitFresh, <1>1, <1>2, PTL DEF Spec
-----------------------------------------------------------------------------
(* What it takes for a poller to get all that is pending: the snapshot is  *)
(* neither interrupted nor fails, and what is pending fits a read.         *)
FitMode == ~Preemptible /\ ~AllocMayFail /\ MaxWrites <= MaxFetch

(* The changes are the newest updates, newest first.                       *)
NewestFirst == /\ Len(changes) <= written
               /\ \A i \in 1 .. Len(changes) : changes[i] = written + 1 - i

(* Who waits for an update has all but the pending ones, who does not has  *)
(* all of them.                                                            *)
LastInv == \A p \in Pollers :
    last[p] = IF Contains(pollList, p) THEN written - Len(changes) ELSE written

Filling == \E p \in Pollers : pc[p] = "fill"
SnapshotTaken == vec \in Vectors /\ vecCount = Len(changes) /\ body[vec] = changes

(* What p has of the snapshot at each place.                               *)
HasSnapshot(p) ==
    /\ pc[p] = "fill" => vec \in Vectors /\ hold[p] = vec
    /\ pc[p] = "copying" => /\ hold[p] \in Vectors /\ want[p] = Len(changes)
                            /\ body[hold[p]] = changes
    /\ pc[p] = "exit" => Holds(got[p], changes)

(* From the first reader's snapshot to the last one's leaving the vector   *)
(* holds the changes, but while another first reader makes it once more.   *)
SnapInv ==
    /\ \A p \in Pollers : HasSnapshot(p)
    /\ (\E p \in Pollers : pc[p] \in {"clamp", "copy", "copying", "exit"})
           => Filling \/ SnapshotTaken
    /\ blackList # <<>> /\ changes # <<>> => Filling \/ SnapshotTaken

FitInv == NewestFirst /\ LastInv /\ SnapInv

LEMMA WholeSubSeq ==
  ASSUME NEW S, NEW s \in Seq(S)
  PROVE  SubSeq(s, 1, Len(s)) = s
OBVIOUS

(* Nobody else is filling a vector when a poller takes a step.             *)
LEMMA NobodyFills ==
  ASSUME ~Preemptible, NEW p \in Pollers, NEW from, NEW to, Goto(p, from, to), from # "fill"
  PROVE  ~Filling
BY DEF Filling, Goto, MayRun, Snapshot

(* Steps that leave the changes alone.                                     *)
LEMMA SameChanges ==
  ASSUME FitInv, UNCHANGED <<changes, pollList, written, last>>
  PROVE  NewestFirst' /\ LastInv'
BY DEF FitInv, NewestFirst, LastInv

(* Steps that leave the snapshot alone as well.                            *)
LEMMA SameSnapshot ==
  ASSUME TypeInv, SnapInv, NEW p \in Pollers, NEW from, NEW to, Goto(p, from, to),
         UNCHANGED <<changes, vec, vecCount, body, hold, want, got>>,
         from # "fill", to \notin {"fill", "clamp", "copying", "exit"},
         to = "copy" => blackList # <<>> /\ changes # <<>>,
         blackList' # <<>> /\ changes # <<>> => blackList # <<>>
  PROVE  SnapInv'
<1>1. Filling' = Filling /\ SnapshotTaken' = SnapshotTaken
  BY PollerMoves DEF Filling, SnapshotTaken
<1> QED
  BY <1>1, PollerMoves DEF SnapInv, HasSnapshot

LEMMA PollKeepsFit ==
  ASSUME TypeInv, PacedInv, FitInv, NEW p \in Pollers, PollEnters(p) \/ PollStep(p)
  PROVE  FitInv'
<1>1. CASE PollJoins(p) \/ PollRejoins(p)
  <2>1. /\ Goto(p, "query", "register") /\ changes = <<>>
        /\ UNCHANGED <<tableVars, written, readVars>>
        /\ blackList' = blackList \/ blackList' = <<>>
    BY <1>1 DEF PollJoins, PollRejoins, Updated
  <2>2. SnapInv'
    BY <2>1, SameSnapshot DEF FitInv
  <2>3. written \in Int /\ Len(changes) = 0
    BY <2>1, PollAssumption DEF TypeInv, DataOK
  <2>4. LastInv' /\ NewestFirst'
    BY <2>1, <2>3 DEF FitInv, LastInv, NewestFirst
  <2> QED
    BY <2>2, <2>4 DEF FitInv
<1>2. CASE ~PollJoins(p) /\ ~PollRejoins(p)
  <2>1. /\ \E from \in {"user", "woken", "query", "register", "asleep"},
              to \in {"query", "ready", "register", "asleep", "woken"} : Goto(p, from, to)
        /\ UNCHANGED <<listVars, vectorVars, listsOfFiles, written, readVars>>
    BY <1>2 DEF PollEnters, PollStep, PollReady, PollDenied, PollSleeps, Wakes
  <2>2. SnapInv'
    BY <2>1, SameSnapshot DEF FitInv
  <2> QED
    BY <2>1, <2>2, SameChanges DEF FitInv
<1> QED
  BY <1>1, <1>2

(* The steps of the snapshot.                                              *)
LEMMA SnapshotKeepsFit ==
  ASSUME FitMode, TypeInv, PacedInv, FitInv, NEW p \in Pollers,
         ReadAllocates(p) \/ ReadFills(p) \/ ReadClamps(p)
  PROVE  SnapInv'
<1> USE DEF TypeInv, FitInv, DataOK, TableTypeOK
<1>0. Copiers = Pollers
  BY PollAssumption
<1>1. CASE ReadAllocates(p)
  <2>1. PICK v \in Available : /\ vec' = v /\ hold' = [hold EXCEPT ![p] = v]
                               /\ body' = [body EXCEPT ![v] = <<>>]
    BY <1>1 DEF ReadAllocates, AllocateVector
  <2>2. Goto(p, "snapshot", "fill") /\ UNCHANGED <<changes, blackList, want, got>>
    BY <1>1 DEF ReadAllocates
  <2>3. /\ pc[p] = "snapshot" /\ pc'[p] = "fill"
        /\ \A q \in Pollers \ {p} : pc'[q] = pc[q] /\ pc[q] # "fill"
    BY <2>2, PollerMoves DEF SemInv, Holding
  <2>4. Filling' /\ v \in Vectors /\ hold'[p] = v
    BY <1>0, <2>1, <2>3 DEF Filling, Available
  <2>5. \A q \in Pollers \ {p} :
          /\ hold'[q] = hold[q] /\ hold[q] # v
          /\ hold[q] \in Vectors => body'[hold[q]] = body[hold[q]]
    BY <1>0, <2>1 DEF Available
  <2>6. ASSUME NEW q \in Pollers \ {p} PROVE HasSnapshot(q)'
    BY <2>2, <2>3, <2>5 DEF SnapInv, HasSnapshot
  <2>7. HasSnapshot(p)'
    BY <2>1, <2>3, <2>4 DEF HasSnapshot
  <2> QED
    BY <2>4, <2>6, <2>7 DEF SnapInv
<1>2. CASE ReadFills(p)
  <2>1. /\ Goto(p, "fill", "clamp") /\ vecCount' = Len(changes)
        /\ body' = [body EXCEPT ![hold[p]] = changes] /\ hold' = [hold EXCEPT ![p] = Null]
        /\ UNCHANGED <<changes, vec, blackList, want, got>>
    BY <1>2, WholeSubSeq DEF ReadFills, FillVector
  <2>2. /\ pc[p] = "fill" /\ pc'[p] = "clamp"
        /\ \A q \in Pollers \ {p} : pc'[q] = pc[q]
    BY <2>1, PollerMoves
  <2>3. SnapshotTaken'
    <3>1. vec \in Vectors /\ hold[p] = vec
      BY <2>2 DEF SnapInv, HasSnapshot
    <3> QED
      BY <2>1, <3>1 DEF SnapshotTaken
  <2>4. \A q \in Pollers : pc'[q] # "fill"
    BY <2>2 DEF SemInv, Holding
  <2>5. \A q \in Pollers \ {p} :
          /\ hold'[q] = hold[q]
          /\ hold[q] \in Vectors /\ body[hold[q]] = changes => body'[hold[q]] = changes
    BY <1>0, <2>1
  <2>6. ASSUME NEW q \in Pollers PROVE HasSnapshot(q)'
    BY <2>1, <2>2, <2>4, <2>5 DEF SnapInv, HasSnapshot
  <2> QED
    BY <2>3, <2>6 DEF SnapInv
<1>3. CASE ReadClamps(p)
  <2>1. /\ Goto(p, "clamp", "copy") /\ vecCount' = Least(vecCount, MaxFetch)
        /\ UNCHANGED <<changes, vec, body, hold, blackList, want, got>>
    BY <1>3 DEF ReadClamps
  <2>2. /\ pc[p] = "clamp" /\ pc'[p] = "copy"
        /\ \A q \in Pollers \ {p} : pc'[q] = pc[q]
    BY <2>1, PollerMoves
  <2>3. SnapshotTaken
    BY <2>1, <2>2, NobodyFills DEF FitMode, SnapInv
  <2>4. Len(changes) <= MaxFetch
    BY PollAssumption, TableAssumption DEF FitMode, NewestFirst
  <2>5. SnapshotTaken'
    BY <2>1, <2>3, <2>4, TableAssumption DEF SnapshotTaken, Least
  <2> QED
    BY <2>1, <2>2, <2>5 DEF SnapInv, HasSnapshot
<1> QED
  BY <1>1, <1>2, <1>3

(* Copying to the user.                                                    *)
LEMMA CopyKeepsFit ==
  ASSUME FitMode, TypeInv, PacedInv, FitInv, NEW p \in Pollers,
         ReadCopies(p) \/ ReadCopied(p)
  PROVE  SnapInv'
<1> USE DEF TypeInv, FitInv, DataOK, TableTypeOK
<1>0. Copiers = Pollers
  BY PollAssumption
<1>1. PICK from \in {"copy", "copying"}, to \in {"copying", "exit"} :
        /\ Goto(p, from, to)
        /\ from = "copy" => ReadCopies(p)
        /\ from = "copying" => ReadCopied(p)
  BY DEF ReadCopies, ReadCopied
<1>2. /\ pc[p] = from /\ pc'[p] = to
      /\ \A q \in Pollers \ {p} : pc'[q] = pc[q]
      /\ UNCHANGED <<changes, vec, vecCount, body, blackList>>
  BY <1>1, PollerMoves DEF ReadCopies, ReadCopied
<1>3. SnapshotTaken /\ SnapshotTaken'
  BY <1>1, <1>2, NobodyFills DEF FitMode, SnapInv, SnapshotTaken
<1>4. CASE from = "copy"
  <2>1. /\ hold' = [hold EXCEPT ![p] = vec] /\ want' = [want EXCEPT ![p] = vecCount]
        /\ got' = got /\ pc'[p] = "copying"
    BY <1>1, <1>2, <1>4 DEF ReadCopies, Goto
  <2>2. /\ hold'[p] = vec /\ want'[p] = vecCount
        /\ \A q \in Pollers \ {p} : hold'[q] = hold[q] /\ want'[q] = want[q]
    BY <1>0, <2>1
  <2>3. HasSnapshot(p)'
    BY <1>2, <1>3, <2>1, <2>2 DEF HasSnapshot, SnapshotTaken
  <2>4. ASSUME NEW q \in Pollers \ {p} PROVE HasSnapshot(q)'
    <3>1. HasSnapshot(q)
      BY <1>1 DEF SnapInv
    <3> QED
      BY <1>2, <2>1, <2>2, <3>1 DEF HasSnapshot
  <2> QED
    BY <1>3, <2>3, <2>4 DEF SnapInv
<1>5. CASE from = "copying"
  <2>1. /\ hold' = [hold EXCEPT ![p] = Null] /\ want' = [want EXCEPT ![p] = 0]
        /\ got' = [got EXCEPT ![p] = Copied(p, want[p])] /\ pc'[p] = "exit"
    BY <1>1, <1>2, <1>5, PollerMoves DEF ReadCopied
  <2>2. Holds(Copied(p, want[p]), changes)
    <3>1. /\ hold[p] \in Vectors /\ want[p] = Len(changes) /\ body[hold[p]] = changes
      BY <1>2, <1>5 DEF SnapInv, HasSnapshot
    <3>2. hold[p] # Null /\ changes \in Seq(Updates)
      BY <3>1, TableAssumption
    <3> QED
      BY <3>1, <3>2, CopyHolds
  <2>3. /\ got'[p] = Copied(p, want[p])
        /\ \A q \in Pollers \ {p} : hold'[q] = hold[q] /\ want'[q] = want[q] /\ got'[q] = got[q]
    BY <1>0, <2>1
  <2>4. HasSnapshot(p)'
    BY <1>2, <2>1, <2>2, <2>3 DEF HasSnapshot, Holds
  <2>5. ASSUME NEW q \in Pollers \ {p} PROVE HasSnapshot(q)'
    <3>1. HasSnapshot(q)
      BY <1>1 DEF SnapInv
    <3> QED
      BY <1>2, <2>3, <3>1 DEF HasSnapshot, Holds
  <2> QED
    BY <1>3, <2>4, <2>5 DEF SnapInv
<1> QED
  BY <1>4, <1>5

LEMMA LeaveKeepsFit ==
  ASSUME TypeInv, PacedInv, PacedInv', FitInv, NEW p \in Pollers, ReadLeaves(p)
  PROVE  FitInv'
<1> USE DEF TypeInv, FitInv
<1>1. /\ Goto(p, "exit", "user") /\ csSem > 0
      /\ UNCHANGED <<vec, body, hold, want, written>>
      /\ last' = [last EXCEPT ![p] = IF got[p] = <<>> THEN @
                                              ELSE got[p][1].update]
      /\ got' = [got EXCEPT ![p] = <<>>]
      /\ \/ UNCHANGED <<changes, vecCount>>
         \/ IsLastReader /\ changes' = <<>>
  BY DEF ReadLeaves, rt_empty_change_list, FreeVectorOnly
<1>2. /\ pc[p] = "exit" /\ pc'[p] = "user"
      /\ \A q \in Pollers \ {p} : pc'[q] = pc[q]
  BY <1>1, PollerMoves
<1>3. Contains(pollList, p) /\ changes # <<>> /\ Holds(got[p], changes)
  BY <1>2 DEF PacedInv, InRead, SnapInv, HasSnapshot
<1>4. /\ Len(changes) \in Nat /\ Len(changes) > 0 /\ changes[1] = written
      /\ written \in Int
  <2>1. Len(changes) \in Nat /\ Len(changes) > 0
    BY <1>3 DEF DataOK, TableTypeOK
  <2>2. written \in Int
    BY PollAssumption DEF DataOK
  <2> QED
    BY <2>1, <2>2 DEF NewestFirst
<1>5. /\ last'[p] = written
      /\ \A q \in Pollers \ {p} : last'[q] = last[q] /\ got'[q] = got[q]
  <2>1. got[p] # <<>> /\ got[p][1].update = written
    BY <1>3, <1>4 DEF Holds
  <2> QED
    BY <1>1, <2>1 DEF DataOK
<1>6. CASE UNCHANGED <<changes, vecCount>>
  <2>1. NewestFirst' /\ LastInv'
    BY <1>1, <1>5, <1>6, LeftLists DEF NewestFirst, LastInv
  <2>2. SnapshotTaken'
    <3>1. ~Filling
      BY <1>1 DEF SemInv, Holding, Filling
    <3> QED
      BY <1>1, <1>2, <1>6, <3>1 DEF SnapInv, SnapshotTaken
  <2>3. SnapInv'
    BY <1>1, <1>2, <1>5, <1>6, <2>2 DEF SnapInv, HasSnapshot
  <2> QED
    BY <2>1, <2>3
<1>7. CASE IsLastReader /\ changes' = <<>>
  <2>1. \A q \in Pollers \ {p} : ~Contains(pollList, q)
    BY <1>3, <1>7, LastIsAlone
  <2>2. \A q \in Pollers : ~Contains(pollList', q)
    BY <2>1, LeftLists
  <2>3. NewestFirst' /\ LastInv'
    BY <1>1, <1>4, <1>5, <1>7, <2>1, <2>2 DEF NewestFirst, LastInv, DataOK
  <2>4. SnapInv'
    BY <1>7 DEF PacedInv, InRead, SnapInv, HasSnapshot
  <2> QED
    BY <2>3, <2>4
<1> QED
  BY <1>1, <1>6, <1>7

LEMMA ReadKeepsFit ==
  ASSUME FitMode, TypeInv, PacedInv, PacedInv', FitInv, NEW p \in Pollers, ReadStep(p)
  PROVE  FitInv'
<1>1. CASE ReadLeaves(p)
  BY <1>1, LeaveKeepsFit
<1>2. CASE ~ReadLeaves(p)
  <2>1. UNCHANGED <<changes, pollList, written, last>> /\ ~ReadAllocFails(p)
    BY <1>2 DEF ReadStep, ReadEnters, EntersRead, FirstReads, NextReads, ReadAllocates,
       ReadAllocFails, ReadFills, ReadClamps, ReadCopies, ReadCopied, FitMode
  <2>2. CASE ReadEnters(p) \/ FirstReads(p) \/ NextReads(p)
    <3>1. /\ \E from \in {"ready", "first"}, to \in {"first", "snapshot", "copy"} :
                /\ Goto(p, from, to)
                /\ to = "copy" => from = "first" /\ blackList # <<>>
          /\ UNCHANGED <<vectorVars, blackList, want, got>>
      BY <2>2 DEF ReadEnters, FirstReads, NextReads
    <3>2. changes # <<>>
      BY <3>1, PollerMoves DEF PacedInv, InRead
    <3>3. SnapInv'
      BY <2>1, <3>1, <3>2, SameSnapshot DEF FitInv
    <3> QED
      BY <2>1, <3>3, SameChanges DEF FitInv
  <2>3. CASE ~(ReadEnters(p) \/ FirstReads(p) \/ NextReads(p))
    <3>1. SnapInv'
      BY <1>2, <2>1, <2>3, SnapshotKeepsFit, CopyKeepsFit DEF ReadStep, EntersRead
    <3> QED
      BY <2>1, <3>1, SameChanges DEF FitInv
  <2> QED
    BY <2>2, <2>3
<1> QED
  BY <1>1, <1>2

LEMMA WriteKeepsFit ==
  ASSUME TypeInv, PacedInv, FitInv, NEW w \in Writers, WriteLocks(w) \/ WriteStep(w)
  PROVE  FitInv'
<1> USE DEF TypeInv, FitInv
<1>0. w \in Processes /\ w \notin Pollers
  BY PollAssumption DEF Processes
<1>1. /\ \A p \in Pollers : pc'[p] = pc[p]
      /\ UNCHANGED <<listsOfFiles, vectorVars, readVars>>
  BY <1>0 DEF WriteLocks, WriteStep, WriteApplies, WriteIgnores, WriteWakes, Goto,
     ListInv, ListTypes, Processes
<1>2. CASE WriteApplies(w)
  <2>1. pc[w] = "apply" /\ changes' = <<written + 1>> \o changes /\ written' = written + 1
    BY <1>2 DEF WriteApplies, Goto, add_rt_table_entry_by_val
  <2>2. /\ rwWriter /\ \A p \in Pollers : pc[p] \notin InRead /\ Contains(pollList, p)
    BY <2>1 DEF PacedInv, Counted, WriteInv
  <2>3. blackList = <<>>
    BY <2>2, NotEmpty DEF ListInv, ListTypes, ListsDisjoint
  <2>4. SnapInv'
    BY <1>1, <2>2, <2>3 DEF SnapInv, HasSnapshot, InRead
  <2>5. /\ Len(changes) \in Nat /\ written \in Nat /\ changes \in Seq(Updates)
        /\ written + 1 \in Updates
    BY <2>1, PollAssumption DEF DataOK, TableTypeOK, WriteInv
  <2>6. /\ Len(changes') = Len(changes) + 1
        /\ \A i \in 1 .. Len(changes') :
              changes'[i] = IF i = 1 THEN written + 1 ELSE changes[i - 1]
    BY <2>1, <2>5
  <2>7. NewestFirst'
    BY <2>1, <2>5, <2>6 DEF NewestFirst
  <2>8. LastInv'
    BY <1>1, <2>1, <2>2, <2>5, <2>6 DEF LastInv
  <2> QED
    BY <2>4, <2>7, <2>8
<1>3. CASE ~WriteApplies(w)
  <2>1. UNCHANGED <<changes, written>>
    BY <1>3 DEF WriteLocks, WriteStep, WriteIgnores, WriteWakes
  <2>2. SnapInv'
    BY <1>1, <2>1 DEF SnapInv, HasSnapshot, Filling, SnapshotTaken
  <2> QED
    BY <1>1, <2>1, <2>2, SameChanges
<1> QED
  BY <1>2, <1>3

LEMMA FitStep ==
  ASSUME PacedMode, FitMode, TypeInv, PacedInv, PacedInv', FitInv, [Next]_vars
  PROVE  FitInv'
<1>1. CASE Next
  <2>1. \A p \in Pollers : ~Killed(p) /\ ~KilledInRead(p)
    BY DEF Killed, KilledInRead, PacedMode
  <2> QED
    BY <1>1, <2>1, PollKeepsFit, ReadKeepsFit, WriteKeepsFit DEF Next
<1>2. CASE UNCHANGED vars
  BY <1>2 DEF vars, FitInv, NewestFirst, LastInv, SnapInv, HasSnapshot,
     Filling, SnapshotTaken
<1> QED
  BY <1>1, <1>2

LEMMA InitFit == Init => FitInv
<1> SUFFICES ASSUME Init PROVE FitInv
  OBVIOUS
<1>1. \A p \in Pollers : pc[p] = "user"
  BY PollAssumption DEF Init
<1>2. written = 0 /\ changes = <<>> /\ \A p \in Pollers : last[p] = 0
  BY DEF Init, TableInit
<1>3. NewestFirst /\ LastInv
  BY <1>2 DEF NewestFirst, LastInv
<1>4. SnapInv
  BY <1>1, <1>2 DEF SnapInv, HasSnapshot
<1> QED
  BY <1>3, <1>4 DEF FitInv

(* What a reader has got is the pending updates, which it waits for.       *)
LEMMA FitUpdates ==
  ASSUME TypeInv, PacedInv, FitInv
  PROVE  EachUpdateOnce
<1> SUFFICES ASSUME NEW p \in Pollers, pc[p] = "exit"
             PROVE  Holds(got[p], [i \in 1 .. written - last[p] |-> written + 1 - i])
  BY DEF EachUpdateOnce
<1>1. Holds(got[p], changes) /\ Contains(pollList, p)
  BY DEF FitInv, SnapInv, HasSnapshot, PacedInv, InRead
<1>2. changes \in Seq(Updates) /\ written \in Nat
  BY PollAssumption DEF TypeInv, DataOK, TableTypeOK
<1>3. written - last[p] = Len(changes)
  BY <1>1, <1>2 DEF FitInv, LastInv
<1>4. changes = [i \in 1 .. written - last[p] |-> written + 1 - i]
  BY <1>2, <1>3 DEF FitInv, NewestFirst
<1> QED
  BY <1>1, <1>4

(* With any number of pollers, each gets each update once and in order     *)
(* (rt_fops.c:70-122), whole as far as EntrySize bytes for each reach, if  *)
(* updates are paced, fit a read, and the snapshot is neither interrupted  *)
(* nor fails.                                                              *)
THEOREM UpdatesOnceInOrder == PacedMode /\ FitMode => (Spec => []EachUpdateOnce)
<1> SUFFICES ASSUME PacedMode, FitMode PROVE Spec => []EachUpdateOnce
  OBVIOUS
<1>1. TypeInv /\ PacedInv /\ FitInv /\ [Next]_vars => TypeInv' /\ PacedInv' /\ FitInv'
  BY TypesStep, PacedStep, FitStep
<1> QED
  BY InitTypes, InitPaced, InitFit, FitUpdates, <1>1, PTL DEF Spec


(* A poller that waits for an update, and goes to sleep or sleeps while    *)
(* there is one, is on the wait queue and has been woken or will be: while *)
(* a writer applies an update all pollers are on the queue, or out of      *)
(* select() with an update to read.                                        *)
ToldInv ==
    /\ (\E w \in Writers : pc[w] = "apply") =>
           \A p \in Pollers : registered[p] \/ pc[p] = "ready"
    /\ \A p \in Pollers :
          pc[p] \in {"register", "asleep"} /\ Contains(pollList, p) /\ changes # <<>>
              => registered[p] /\ (triggered[p] \/ \E w \in Writers : pc[w] = "wake")

LEMMA InitTold == Init => ToldInv
BY PollAssumption DEF Init, ToldInv

LEMMA PollTells ==
  ASSUME NonBlock = {}, TypeInv, ToldInv, NEW p \in Pollers, PollEnters(p) \/ PollStep(p)
  PROVE  ToldInv'
<1>0. registered \in [Pollers -> BOOLEAN] /\ triggered \in [Pollers -> BOOLEAN]
  BY DEF TypeInv, DataOK, ListInv, ListTypes
<1>1. CASE PollEnters(p) \/ PollDenied(p)
  <2>1. /\ \E from \in {"user", "woken", "query"}, to \in {"query", "register"} :
              /\ Goto(p, from, to)
              /\ to = "register" => Contains(blackList, p)
        /\ UNCHANGED <<changes, listsOfFiles, registered, triggered>>
    BY <1>1 DEF PollEnters, PollDenied
  <2>2. Contains(blackList, p) => ~Contains(pollList, p)
    BY DEF TypeInv, ListInv, ListsDisjoint
  <2> QED
    BY <2>1, <2>2, PollerMoves DEF ToldInv
<1>2. CASE PollReady(p) \/ Wakes(p)
  <2>1. /\ \E from \in {"query", "asleep"}, to \in {"ready", "woken"} :
              /\ Goto(p, from, to)
              /\ to = "woken" => registered'[p] = registered[p]
        /\ UNCHANGED <<changes, pollList>>
        /\ \A q \in Pollers \ {p} : registered'[q] = registered[q] /\ triggered'[q] = triggered[q]
    BY <1>0, <1>2 DEF PollReady, Wakes, Deregister
  <2> QED
    BY <2>1, PollerMoves DEF ToldInv
<1>3. CASE PollJoins(p) \/ PollRejoins(p)
  <2>1. /\ changes' = <<>> /\ registered' = registered
        /\ Goto(p, "query", "register")
    BY <1>3 DEF PollJoins, PollRejoins, Updated
  <2> QED
    BY <2>1, PollerMoves DEF ToldInv
<1>4. CASE PollSleeps(p)
  <2>1. Goto(p, "register", "asleep") /\ UNCHANGED <<changes, pollList, triggered>>
    BY <1>4 DEF PollSleeps
  <2>2. registered'[p] /\ \A q \in Pollers \ {p} : registered'[q] = registered[q]
    BY <1>0, <1>4 DEF PollSleeps
  <2> QED
    BY <2>1, <2>2, PollerMoves DEF ToldInv
<1> QED
  BY <1>1, <1>2, <1>3, <1>4 DEF PollStep

LEMMA ReadTells ==
  ASSUME TypeInv, PacedInv, ToldInv, NEW p \in Pollers, ReadStep(p)
  PROVE  ToldInv'
<1>1. /\ \E from, to \in InRead \cup {"ready", "user"} :
            /\ Goto(p, from, to)
            /\ from \in InRead \/ ~rwWriter
      /\ UNCHANGED <<registered, triggered>>
      /\ changes' \in {changes, <<>>}
  BY DEF ReadStep, EntersRead, ReadEnters, FirstReads, NextReads, ReadAllocates,
     ReadAllocFails, ReadFills, ReadClamps, ReadCopies, ReadCopied, ReadLeaves,
     rt_empty_change_list, InRead
<1>2. \A q \in Pollers : Contains(pollList', q) => Contains(pollList, q)
  <2>1. CASE ReadLeaves(p)
    BY <2>1, LeftLists DEF TypeInv
  <2>2. CASE ~ReadLeaves(p)
    <3>1. pollList' = pollList
      BY <2>2 DEF ReadStep, EntersRead, ReadEnters, FirstReads, NextReads, ReadAllocates,
         ReadAllocFails, ReadFills, ReadClamps, ReadCopies, ReadCopied
    <3> QED
      BY <3>1
  <2> QED
    BY <2>1, <2>2
<1>3. \A w \in Writers : pc'[w] = pc[w] /\ pc[w] # "apply"
  BY <1>1, PollerMoves DEF PacedInv, TypeInv, WriteInv
<1> QED
  BY <1>1, <1>2, <1>3, PollerMoves DEF ToldInv, InRead

LEMMA WriteTells ==
  ASSUME Paced, TypeInv, ToldInv, NEW w \in Writers, WriteLocks(w) \/ WriteStep(w)
  PROVE  ToldInv'
<1>0. w \in Processes /\ w \notin Pollers
  BY PollAssumption DEF Processes
<1>1. /\ \A p \in Pollers : pc'[p] = pc[p]
      /\ \A v \in Writers \ {w} : pc'[v] = pc[v]
      /\ UNCHANGED <<pollList, registered>>
  BY <1>0 DEF WriteLocks, WriteStep, WriteApplies, WriteIgnores, WriteWakes,
     Goto, TypeInv, ListInv, ListTypes, Processes
<1>2. CASE WriteLocks(w)
  <2>1. Goto(w, "idle", "apply") /\ UNCHANGED <<changes, triggered>> /\ Quiet
    BY <1>2 DEF WriteLocks
  <2>2. pc[w] = "idle" /\ \A p \in Pollers : registered[p]
    BY <2>1 DEF Goto, Quiet, TypeInv, ListInv, WaitersListed
  <2> QED
    BY <1>1, <2>1, <2>2 DEF ToldInv
<1>3. CASE WriteApplies(w) \/ WriteIgnores(w)
  <2>1. Goto(w, "apply", "wake") /\ UNCHANGED triggered
    BY <1>3 DEF WriteApplies, WriteIgnores
  <2>2. pc[w] = "apply" /\ pc'[w] = "wake"
    BY <1>0, <2>1, Moves DEF TypeInv, ListInv, Goto
  <2> QED
    BY <1>1, <2>1, <2>2 DEF ToldInv
<1>4. CASE WriteWakes(w)
  <2>1. Goto(w, "wake", "idle") /\ UNCHANGED changes
        /\ triggered' = [p \in Pollers |-> triggered[p] \/ registered[p]]
    BY <1>4 DEF WriteWakes
  <2>2. pc'[w] = "idle"
    BY <1>0, <2>1, Moves DEF TypeInv, ListInv
  <2> QED
    BY <1>1, <2>1, <2>2 DEF ToldInv
<1> QED
  BY <1>2, <1>3, <1>4 DEF WriteStep

(* A poller that sleeps has read what is written, or its wake-up is under  *)
(* way.                                                                    *)
SleeperTold == \A p \in Pollers :
    pc[p] = "asleep" => \/ triggered[p]
                        \/ last[p] = written
                        \/ \E w \in Writers : pc[w] = "wake"

(* With any number of pollers and writers no update is slept through,      *)
(* though rt_poll looks for one before it is on the wait queue             *)
(* (rt_fops.c:529-531): what UpdateReaches needs of safety, if updates are *)
(* paced, fit a read, and the snapshot is neither interrupted nor fails.   *)
THEOREM NoUpdateSleptThrough == PacedMode /\ FitMode => (Spec => []SleeperTold)
<1> SUFFICES ASSUME PacedMode, FitMode PROVE Spec => []SleeperTold
  OBVIOUS
<1>1. TypeInv /\ PacedInv /\ FitInv /\ [Next]_vars => TypeInv' /\ PacedInv' /\ FitInv'
  BY TypesStep, PacedStep, FitStep
<1>2. TypeInv /\ PacedInv /\ ToldInv /\ [Next]_vars => ToldInv'
  <2>1. ASSUME ToldInv, UNCHANGED vars PROVE ToldInv'
    BY <2>1 DEF vars, ToldInv
  <2>2. \A p \in Pollers : ~Killed(p) /\ ~KilledInRead(p)
    BY DEF Killed, KilledInRead, PacedMode
  <2> QED
    BY <2>1, <2>2, PollTells, ReadTells, WriteTells DEF Next, PacedMode
<1>3. TypeInv /\ FitInv /\ ToldInv => SleeperTold
  <2> SUFFICES ASSUME TypeInv, FitInv, ToldInv, NEW p \in Pollers, pc[p] = "asleep",
                      ~triggered[p], \A w \in Writers : pc[w] # "wake"
               PROVE  last[p] = written
    BY DEF SleeperTold
  <2>1. Contains(pollList, p) => changes = <<>>
    BY DEF ToldInv
  <2>2. written \in Int /\ (changes = <<>> => Len(changes) = 0)
    BY PollAssumption DEF TypeInv, DataOK
  <2> QED
    BY <2>1, <2>2 DEF FitInv, LastInv
<1> QED
  BY InitTypes, InitPaced, InitFit, InitTold, <1>1, <1>2, <1>3, PTL DEF Spec
-----------------------------------------------------------------------------
(* A poller that is not black-listed, and goes to sleep or sleeps while    *)
(* there is an update, has been woken or will be, or missed its wake-up:   *)
(* from here on in every mode again.                                       *)
AwakeInv == \A p \in Pollers :
    pc[p] \in {"register", "asleep"} /\ ~Contains(blackList, p) /\ changes # <<>> =>
        \/ triggered[p] \/ p \in missed
        \/ \E w \in Writers : pc[w] = "wake"

(* The steps of a poller: only its own place, membership and wake-up       *)
(* change, but for the black list coming back when there is no update.     *)
LEMMA PollKeepsAwake ==
  ASSUME TypeInv, AwakeInv, NEW p \in Pollers, PollEnters(p) \/ PollStep(p)
  PROVE  AwakeInv'
<1>1. CASE PollEnters(p) \/ PollDenied(p)
  <2>1. /\ \E from \in {"user", "woken", "query"}, to \in {"query", "register"} :
              /\ Goto(p, from, to)
              /\ to = "register" => Contains(blackList, p)
        /\ UNCHANGED <<changes, blackList, triggered>>
        /\ missed' \in {missed, missed \ {p}}
    BY <1>1 DEF PollEnters, PollDenied
  <2> QED
    BY <2>1, PollerMoves DEF AwakeInv
<1>2. CASE PollReady(p) \/ Wakes(p)
  <2>1. /\ \E from \in {"query", "asleep"}, to \in {"ready", "woken"} : Goto(p, from, to)
        /\ UNCHANGED <<changes, blackList, missed>>
        /\ \A q \in Pollers \ {p} : triggered'[q] = triggered[q]
    BY <1>2 DEF PollReady, Wakes, Deregister, TypeInv, DataOK
  <2> QED
    BY <2>1, PollerMoves DEF AwakeInv
<1>3. CASE PollJoins(p) \/ PollRejoins(p)
  <2>1. changes' = <<>>
    BY <1>3 DEF PollJoins, PollRejoins, Updated
  <2> QED
    BY <2>1 DEF AwakeInv
<1>4. CASE PollSleeps(p)
  <2>1. /\ Goto(p, "register", "asleep")
        /\ UNCHANGED <<changes, blackList, triggered, missed>>
    BY <1>4 DEF PollSleeps
  <2> QED
    BY <2>1, PollerMoves DEF AwakeInv
<1> QED
  BY <1>1, <1>2, <1>3, <1>4 DEF PollStep

LEMMA ReadKeepsAwake ==
  ASSUME TypeInv, AwakeInv, NEW p \in Pollers, ReadStep(p)
  PROVE  AwakeInv'
<1>1. /\ \E from, to \in InRead \cup {"ready", "user"} : Goto(p, from, to)
      /\ UNCHANGED <<triggered, missed>>
      /\ changes' \in {changes, <<>>}
  BY DEF ReadStep, EntersRead, ReadEnters, FirstReads, NextReads, ReadAllocates,
     ReadAllocFails, ReadFills, ReadClamps, ReadCopies, ReadCopied, ReadLeaves,
     rt_empty_change_list, InRead
<1>2. \A q \in Pollers : Contains(blackList, q) => Contains(blackList', q)
  <2>1. CASE ReadLeaves(p)
    BY <2>1, LeftLists DEF TypeInv
  <2>2. CASE ~ReadLeaves(p)
    <3>1. blackList' = blackList
      BY <2>2 DEF ReadStep, EntersRead, ReadEnters, FirstReads, NextReads, ReadAllocates,
         ReadAllocFails, ReadFills, ReadClamps, ReadCopies, ReadCopied
    <3> QED
      BY <3>1
  <2> QED
    BY <2>1, <2>2
<1> QED
  BY <1>1, <1>2, PollerMoves DEF AwakeInv, InRead

(* The writer that adds an update is then about to wake, and wakes all who *)
(* sleep, for they are on the wait queue; who is about to sleep and is not *)
(* there yet is noted.                                                     *)
LEMMA WriteKeepsAwake ==
  ASSUME TypeInv, AwakeInv, NEW w \in Writers, WriteLocks(w) \/ WriteStep(w)
  PROVE  AwakeInv'
<1>0. w \in Processes /\ w \notin Pollers
  BY PollAssumption DEF Processes
<1>1. /\ \A p \in Pollers : pc'[p] = pc[p]
      /\ \A v \in Writers \ {w} : pc'[v] = pc[v]
      /\ blackList' = blackList
  BY <1>0 DEF WriteLocks, WriteStep, WriteApplies, WriteIgnores, WriteWakes,
     Goto, TypeInv, ListInv, ListTypes, Processes
<1>2. CASE WriteLocks(w)
  <2>1. Goto(w, "idle", "apply") /\ UNCHANGED <<changes, triggered, missed>>
    BY <1>2 DEF WriteLocks
  <2>2. pc[w] = "idle"
    BY <2>1 DEF Goto
  <2> QED
    BY <1>1, <2>1, <2>2 DEF AwakeInv
<1>3. CASE WriteApplies(w) \/ WriteIgnores(w)
  <2>1. Goto(w, "apply", "wake")
    BY <1>3 DEF WriteApplies, WriteIgnores
  <2>2. pc'[w] = "wake"
    BY <1>0, <2>1, Moves DEF TypeInv, ListInv
  <2> QED
    BY <1>1, <2>2 DEF AwakeInv
<1>4. CASE WriteWakes(w)
  <2>1. /\ triggered' = [p \in Pollers |-> triggered[p] \/ registered[p]]
        /\ missed' = missed \cup {p \in Pollers : pc[p] = "register" /\ ~registered[p]}
    BY <1>4 DEF WriteWakes
  <2>2. ASSUME NEW p \in Pollers, pc[p] \in {"register", "asleep"}
        PROVE  triggered'[p] \/ p \in missed'
    <3>1. registered[p] => triggered'[p]
      BY <2>1
    <3>2. pc[p] = "asleep" => registered[p]
      BY DEF TypeInv, ListInv, WaitersListed
    <3>3. ~registered[p] => p \in missed'
      BY <2>1, <2>2, <3>2
    <3> QED
      BY <3>1, <3>3
  <2> QED
    BY <1>1, <2>2 DEF AwakeInv
<1> QED
  BY <1>2, <1>3, <1>4 DEF WriteStep

LEMMA AwakeStep ==
  ASSUME TypeInv, AwakeInv, [Next]_vars
  PROVE  AwakeInv'
<1>1. ASSUME NEW p \in Pollers, Killed(p) \/ KilledInRead(p) PROVE AwakeInv'
  <2>1. /\ \E at \in {"user", "asleep", "woken", "ready", "first", "exit"} :
              Goto(p, at, "gone")
        /\ UNCHANGED <<changes, blackList, missed>>
        /\ \A q \in Pollers \ {p} : triggered'[q] = triggered[q]
    BY <1>1 DEF Killed, KilledInRead, Deregister, TypeInv, DataOK
  <2> QED
    BY <2>1, PollerMoves DEF AwakeInv
<1>2. CASE UNCHANGED vars
  BY <1>2 DEF vars, AwakeInv
<1> QED
  BY <1>1, <1>2, PollKeepsAwake, ReadKeepsAwake, WriteKeepsAwake DEF Next

LEMMA InitAwake == Init => AwakeInv
BY PollAssumption DEF Init, AwakeInv

(* With any number of pollers and writers and in every mode, a poller that *)
(* sleeps beside an update it is not refused has been woken, will be, or   *)
(* missed a wake-up between rt_poll's look at the change list and poll_wait*)
(* (rt_fops.c:514, 529): neither the lists' moves nor a writer's           *)
(* wake_up (rt_fops.c:146) lose one.                                       *)
THEOREM WakeUpsKept == Spec => []OnlyEarlyWakeLost
<1>1. TypeInv /\ AwakeInv /\ [Next]_vars => TypeInv' /\ AwakeInv'
  BY TypesStep, AwakeStep
<1>2. AwakeInv => OnlyEarlyWakeLost
  BY DEF AwakeInv, OnlyEarlyWakeLost, Updated
<1> QED
  BY InitTypes, InitAwake, <1>1, <1>2, PTL DEF Spec
-----------------------------------------------------------------------------
(* One file of several a poller has open: what of the above holds when     *)
(* select() asks the others as well, and sleeps on all of them.            *)

(* What select() does to a file without asking it: it starts a pass, is    *)
(* woken, perhaps by another file, or returns.                             *)
SelectMoves(p) ==
    /\ \E from \in {"user", "asleep", "ready"}, to \in {"user", "woken", "ready"} :
          /\ pc[p] = from /\ pc' = [pc EXCEPT ![p] = to]
          /\ to = "ready" => from = "ready"
    /\ registered' \in {registered, [registered EXCEPT ![p] = FALSE]}
    /\ triggered' \in {triggered, [triggered EXCEPT ![p] = FALSE]}
    /\ missed' = missed
    /\ UNCHANGED <<tableVars, listsOfFiles, rwVars, written, readVars>>

FilePolled(p) == PollEnters(p) \/ PollStep(p) \/ ReadStep(p) \/ SelectMoves(p)

(* A writer waits until every poller is counted, wherever the pollers are. *)
FileWritten(w) == (WriteLocks(w) /\ Counted) \/ WriteStep(w)

FileNext == (\E p \in Pollers : FilePolled(p)) \/ (\E w \in Writers : FileWritten(w))

FileSpec == Init /\ [][FileNext]_vars

(* select() moves one poller.                                              *)
LEMMA SelectPlaces ==
  ASSUME TypeInv, NEW p \in Pollers, SelectMoves(p)
  PROVE  /\ pc[p] \in {"user", "asleep", "ready"} /\ pc'[p] \in {"user", "woken", "ready"}
         /\ pc'[p] = "ready" => pc[p] = "ready"
         /\ \A q \in Pollers \ {p} : pc'[q] = pc[q]
         /\ \A w \in Writers : pc'[w] = pc[w]
         /\ DOMAIN pc' = Processes
         /\ registered' \in [Pollers -> BOOLEAN] /\ triggered' \in [Pollers -> BOOLEAN]
         /\ \A q \in Pollers \ {p} : registered'[q] = registered[q] /\ triggered'[q] = triggered[q]
<1>1. DOMAIN pc = Processes /\ registered \in [Pollers -> BOOLEAN]
      /\ triggered \in [Pollers -> BOOLEAN]
  BY DEF TypeInv, ListInv, ListTypes, DataOK
<1>2. /\ registered' \in [Pollers -> BOOLEAN] /\ triggered' \in [Pollers -> BOOLEAN]
      /\ \A q \in Pollers \ {p} : registered'[q] = registered[q] /\ triggered'[q] = triggered[q]
  BY <1>1 DEF SelectMoves
<1>3. PICK from \in {"user", "asleep", "ready"}, to \in {"user", "woken", "ready"} :
        /\ pc[p] = from /\ pc' = [pc EXCEPT ![p] = to]
        /\ to = "ready" => from = "ready"
  BY DEF SelectMoves
<1>4. DOMAIN pc' = Processes /\ pc'[p] = to
      /\ \A t \in Processes \ {p} : pc'[t] = pc[t]
  BY <1>1, <1>3 DEF Processes
<1> QED
  BY <1>2, <1>3, <1>4, PollAssumption DEF Processes

LEMMA SelectKeepsTypes ==
  ASSUME TypeInv, NEW p \in Pollers, SelectMoves(p)
  PROVE  TypeInv'
<1>1. UNCHANGED <<tableVars, listsOfFiles, missed, rwVars, written, readVars>>
  BY DEF SelectMoves
<1>2. ListInv'
  BY <1>1, SelectPlaces DEF TypeInv, ListInv, ListTypes, ListsDisjoint, ReadersNotBlack,
     WaitersListed, Listed, InRead
<1>3. SemInv' /\ WriteInv' /\ PlacesOK'
  BY <1>1, SelectPlaces DEF TypeInv, SemInv, WriteInv, PlacesOK, PollerAt, Holding
<1>4. DataOK'
  BY <1>1, SelectPlaces DEF TypeInv, DataOK, TableTypeOK
<1> QED
  BY <1>2, <1>3, <1>4 DEF TypeInv

LEMMA FileTypes ==
  ASSUME TypeInv, [FileNext]_vars
  PROVE  TypeInv'
<1>1. (\E p \in Pollers : SelectMoves(p)) \/ [Next]_vars
  BY DEF FileNext, FilePolled, FileWritten, Next
<1> QED
  BY <1>1, SelectKeepsTypes, TypesStep

(* Readers are still told apart from writers, and counted.                 *)
LEMMA FilePaced ==
  ASSUME NonBlock = {}, TypeInv, PacedInv, [FileNext]_vars
  PROVE  PacedInv'
<1>1. ASSUME NEW p \in Pollers, SelectMoves(p) PROVE PacedInv'
  <2>1. UNCHANGED <<changes, listsOfFiles, rwVars>>
    BY <1>1 DEF SelectMoves
  <2> QED
    BY <1>1, <2>1, SelectPlaces DEF PacedInv, Counted, Listed, InRead
<1>2. CASE UNCHANGED vars
  BY <1>2 DEF vars, PacedInv, Counted, Listed
<1> QED
  BY <1>1, <1>2, PollPaces, ReadPaces, WritePaces DEF FileNext, FilePolled, FileWritten

LEMMA FileLive ==
  ASSUME TypeInv, PacedInv, LiveInv, [FileNext]_vars
  PROVE  LiveInv'
<1>1. ASSUME NEW p \in Pollers, SelectMoves(p) PROVE LiveInv'
  <2>1. UNCHANGED <<vectorVars, want>>
    BY <1>1 DEF SelectMoves
  <2> QED
    BY <1>1, <2>1, SelectPlaces DEF LiveInv
<1>2. CASE UNCHANGED vars
  BY <1>2 DEF vars, LiveInv
<1> QED
  BY <1>1, <1>2, PollKeepsLive, ReadKeepsLive, WriteKeepsLive DEF FileNext, FilePolled,
     FileWritten

LEMMA FileFit ==
  ASSUME FitMode, TypeInv, PacedInv, PacedInv', FitInv, [FileNext]_vars
  PROVE  FitInv'
<1>1. ASSUME NEW p \in Pollers, SelectMoves(p) PROVE FitInv'
  <2>1. UNCHANGED <<changes, vec, vecCount, body, hold, listsOfFiles, written, want, got, last>>
    BY <1>1 DEF SelectMoves
  <2>2. Filling' = Filling /\ SnapshotTaken' = SnapshotTaken
    BY <1>1, <2>1, SelectPlaces DEF Filling, SnapshotTaken
  <2>3. SnapInv'
    BY <1>1, <2>1, <2>2, SelectPlaces DEF FitInv, SnapInv, HasSnapshot
  <2> QED
    BY <2>1, <2>3, SameChanges DEF FitInv
<1>2. CASE UNCHANGED vars
  BY <1>2 DEF vars, FitInv, NewestFirst, LastInv, SnapInv, HasSnapshot,
     Filling, SnapshotTaken
<1> QED
  BY <1>1, <1>2, PollKeepsFit, ReadKeepsFit, WriteKeepsFit DEF FileNext, FilePolled,
     FileWritten

LEMMA FileAwake ==
  ASSUME TypeInv, AwakeInv, [FileNext]_vars
  PROVE  AwakeInv'
<1>1. ASSUME NEW p \in Pollers, SelectMoves(p) PROVE AwakeInv'
  <2>1. UNCHANGED <<changes, blackList, missed>>
    BY <1>1 DEF SelectMoves
  <2> QED
    BY <1>1, <2>1, SelectPlaces DEF AwakeInv
<1>2. (\E p \in Pollers : SelectMoves(p)) \/ [Next]_vars
  BY DEF FileNext, FilePolled, FileWritten, Next
<1> QED
  BY <1>1, <1>2, AwakeStep

(* The invariants of one file.                                             *)
THEOREM FileTyping == FileSpec => []TypeInv
BY InitTypes, FileTypes, PTL DEF FileSpec

THEOREM FileReaders == NonBlock = {} => (FileSpec => [](PacedInv /\ LiveInv /\ AwakeInv))
<1> SUFFICES ASSUME NonBlock = {} PROVE FileSpec => [](PacedInv /\ LiveInv /\ AwakeInv)
  OBVIOUS
<1>1. /\ TypeInv /\ PacedInv /\ [FileNext]_vars => PacedInv'
      /\ TypeInv /\ PacedInv /\ LiveInv /\ [FileNext]_vars => LiveInv'
      /\ TypeInv /\ AwakeInv /\ [FileNext]_vars => AwakeInv'
  BY FilePaced, FileLive, FileAwake
<1> QED
  BY InitPaced, InitLive, InitAwake, FileTyping, <1>1, PTL DEF FileSpec

THEOREM FilesFit == NonBlock = {} /\ FitMode => (FileSpec => []FitInv)
<1> SUFFICES ASSUME NonBlock = {}, FitMode PROVE FileSpec => []FitInv
  OBVIOUS
<1>1. FileSpec => []PacedInv
  BY FileReaders, PTL
<1>2. TypeInv /\ PacedInv /\ PacedInv' /\ FitInv /\ [FileNext]_vars => FitInv'
  BY FileFit
<1> QED
  BY InitFit, FileTyping, <1>1, <1>2, PTL DEF FileSpec
=============================================================================
