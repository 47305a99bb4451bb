-------------------------- MODULE FlushPipelineProofs --------------------------
(* Proofs about FlushPipeline for any numbers of memtables, CompWorkers     *)
(* and tables.                                                              *)
EXTENDS FlushPipeline, SequenceTheorems, TLAPS

-----------------------------------------------------------------------------
(* Sequences.                                                              *)

\* What a vector holds after push_back; an element that is new keeps it without repeats.
LEMMA RangeAppend ==
  ASSUME NEW S, NEW s \in Seq(S), NEW e \in S
  PROVE  /\ Range(Append(s, e)) = Range(s) \cup {e}
         /\ IsInjective(s) /\ e \notin Range(s) => IsInjective(Append(s, e))
<1> DEFINE c == Append(s, e)
<1>1. /\ c \in Seq(S) /\ Len(c) = Len(s) + 1
      /\ \A h \in 1 .. Len(s) : c[h] = s[h]
      /\ c[Len(s) + 1] = e
  BY AppendProperties
<1> HIDE DEF c
<1>2. DOMAIN s = 1 .. Len(s) /\ DOMAIN c = 1 .. Len(c) /\ Len(s) \in Nat
  BY <1>1, LenProperties
<1>3. \A h \in DOMAIN c : (h \in DOMAIN s /\ c[h] = s[h]) \/ (h = Len(s) + 1 /\ c[h] = e)
  BY <1>1, <1>2
<1>4. \A h \in DOMAIN s : h \in DOMAIN c /\ c[h] = s[h]
  BY <1>1, <1>2
<1>5. Len(s) + 1 \in DOMAIN c
  BY <1>1, <1>2
<1>6. Range(c) = Range(s) \cup {e}
  BY <1>1, <1>3, <1>4, <1>5 DEF Range
<1>7. IsInjective(s) /\ e \notin Range(s) => IsInjective(c)
  BY <1>3 DEF IsInjective, Range
<1> QED BY <1>6, <1>7 DEF c

\* What a vector holds after its first element was taken.
LEMMA RangeTail ==
  ASSUME NEW S, NEW s \in Seq(S), s # <<>>
  PROVE  /\ Head(s) \in Range(s) /\ Head(s) \in S /\ Tail(s) \in Seq(S)
         /\ IsInjective(s) => /\ Range(Tail(s)) = Range(s) \ {Head(s)}
                              /\ IsInjective(Tail(s))
<1> DEFINE c == Tail(s)
<1>1. /\ c \in Seq(S) /\ Len(c) = Len(s) - 1 /\ Head(s) = s[1] /\ Head(s) \in S
      /\ \A h \in 1 .. Len(c) : c[h] = s[h + 1]
      /\ Len(s) \in Nat \ {0}
  BY HeadTailProperties, EmptySeq
<1> HIDE DEF c
<1>2. DOMAIN s = 1 .. Len(s) /\ DOMAIN c = 1 .. Len(c)
  BY <1>1, LenProperties
<1>3. \A h \in DOMAIN c : h + 1 \in DOMAIN s /\ h + 1 # 1 /\ c[h] = s[h + 1]
  BY <1>1, <1>2
<1>4. \A h \in DOMAIN s : h = 1 \/ (h - 1 \in DOMAIN c /\ c[h - 1] = s[h])
  BY <1>1, <1>2
<1>5. 1 \in DOMAIN s /\ s[1] = Head(s)
  BY <1>1, <1>2
<1>6. Head(s) \in Range(s)
  BY <1>5 DEF Range
<1>7. ASSUME IsInjective(s) PROVE IsInjective(c)
  <2> SUFFICES ASSUME NEW a \in DOMAIN c, NEW b \in DOMAIN c, c[a] = c[b] PROVE a = b
    BY DEF IsInjective
  <2>1. a + 1 = b + 1
    BY <1>3, <1>7 DEF IsInjective
  <2> QED BY <2>1, <1>2, <1>1
<1>8. ASSUME IsInjective(s) PROVE Range(c) = Range(s) \ {Head(s)}
  <2>1. ASSUME NEW e \in Range(c) PROVE e \in Range(s) \ {Head(s)}
    <3>1. PICK h \in DOMAIN c : c[h] = e
      BY <2>1 DEF Range
    <3> QED BY <1>3, <1>5, <1>8, <3>1 DEF Range, IsInjective
  <2>2. ASSUME NEW e \in Range(s), e # Head(s) PROVE e \in Range(c)
    BY <2>2, <1>4, <1>5 DEF Range
  <2> QED BY <2>1, <2>2
<1> QED BY <1>1, <1>6, <1>7, <1>8 DEF c

-----------------------------------------------------------------------------
(* The invariant.                                                          *)

FlushTypes ==
  /\ level \in [Numbers -> Nat] /\ retiring \in [Numbers -> BOOLEAN]
  /\ readonly \in [Numbers -> Seq(Nat)] /\ views \in [Numbers -> Seq(Nat)]
  /\ remove_N \in [Numbers -> Nat] /\ preRemove_N \in [Numbers -> Nat]
  /\ sstables \in [Numbers -> Nat]
  /\ current_comp_index \in CompWorkers
  /\ bg_wait \in [CompWorkers -> Seq(Table)] /\ wait \in [CompWorkers -> Seq(Table)]
  /\ kept \in [CompWorkers -> Seq(Table)] /\ cq \in [CompWorkers -> Seq(Table)]
  /\ cst \in [CompWorkers -> {"idle", "peek", "flush", "merge"}]
  /\ inflight \in [CompWorkers -> SUBSET Table]

\* The read-only vector has the newest retired levels and the views the oldest ones, in
\* level order; remove_N_ counts the views, and what it does not exceed has been sealed.
Levels(n) ==
  /\ preRemove_N[n] <= remove_N[n] /\ remove_N[n] <= Sealed(n) /\ preRemove_N[n] <= level[n]
  /\ remove_N[n] = Len(views[n])
  /\ \A i \in DOMAIN views[n] : views[n][i] = i - 1
  /\ Len(readonly[n]) = level[n] - preRemove_N[n]
  /\ \A i \in DOMAIN readonly[n] : readonly[n][i] = preRemove_N[n] + i - 1

\* Where a table can be before it has its view.
Stages == {"bg_wait", "wait", "inflight", "cq"}
Content(q, c) ==
  CASE q = "bg_wait" -> Range(bg_wait[c])
    [] q = "wait" -> Range(wait[c])
    [] q = "inflight" -> inflight[c]
    [] q = "cq" -> Range(cq[c])

Viewed(t) == t[2] < Len(views[t[1]])

\* What is held by a CompWorker has been handed over and has no view yet,
Pending == \A q \in Stages, c \in CompWorkers : \A t \in Content(q, c) : t \in Handed /\ ~Viewed(t)

\* is held in one stage of one CompWorker,
Apart ==
  \A q, r \in Stages, c, d \in CompWorkers :
    \A t \in Content(q, c) : t \in Content(r, d) => q = r /\ c = d

\* at one place of it,
Distinct == \A c \in CompWorkers : IsInjective(bg_wait[c]) /\ IsInjective(wait[c]) /\ IsInjective(cq[c])

\* and what is held nowhere has its view.
NoneLost == \A t \in Handed : Viewed(t) \/ \E q \in Stages, c \in CompWorkers : t \in Content(q, c)

\* Outside a batch a CompWorker's second vector is empty.
BatchOnly == \A c \in CompWorkers : cst[c] # "flush" => wait[c] = <<>> /\ kept[c] = <<>>

FlushInv ==
  /\ FlushTypes
  /\ \A n \in Numbers : Levels(n)
  /\ Pending /\ Apart /\ Distinct /\ NoneLost /\ BatchOnly

-----------------------------------------------------------------------------
(* Types.                                                                  *)

\* A table is a number and a level.
LEMMA TableParts == \A t \in Table : t[1] \in Numbers /\ t[2] \in Nat /\ t = <<t[1], t[2]>>
BY DEF Table

\* Every step keeps the variables in their types.
LEMMA TypesKept == FlushTypes /\ [Next]_vars => FlushTypes'
<1> SUFFICES ASSUME FlushTypes, [Next]_vars PROVE FlushTypes'
  OBVIOUS
<1> USE DEF FlushTypes
<1>1. ASSUME NEW n \in Numbers, AddReadOnlyTable(n) PROVE FlushTypes'
  <2>1. <<n, level[n]>> \in Table
    BY DEF Table
  <2>2. bg_wait' \in [CompWorkers -> Seq(Table)]
    <3>1. Append(bg_wait[current_comp_index], <<n, level[n]>>) \in Seq(Table)
      BY <2>1, AppendProperties
    <3> QED BY <1>1, <3>1 DEF AddReadOnlyTable, AddSStable
  <2>3. current_comp_index' \in CompWorkers
    BY <1>1, TaskWorkersAssumption DEF AddReadOnlyTable, CompWorkers
  <2>4. retiring' \in [Numbers -> BOOLEAN]
    BY <1>1 DEF AddReadOnlyTable
  <2>5. UNCHANGED <<level, readonly, remove_N, preRemove_N, sstables, views, wait, kept, cst, inflight, cq>>
    BY <1>1 DEF AddReadOnlyTable
  <2> QED BY <2>2, <2>3, <2>4, <2>5
<1>2. ASSUME NEW n \in Numbers, Retire(n) PROVE FlushTypes'
  <2>1. /\ readonly' \in [Numbers -> Seq(Nat)] /\ level' \in [Numbers -> Nat]
        /\ retiring' \in [Numbers -> BOOLEAN]
    <3>1. Append(readonly[n], level[n]) \in Seq(Nat)
      BY AppendProperties
    <3>2. CASE Referenced(<<n, level[n]>>)
      <4>1. /\ readonly' = [readonly EXCEPT ![n] = Append(@, level[n])]
            /\ level' = [level EXCEPT ![n] = @ + 1]
            /\ retiring' = [retiring EXCEPT ![n] = FALSE]
        BY <1>2, <3>2 DEF Retire
      <4>2. retiring' \in [Numbers -> BOOLEAN]
        BY <4>1
      <4>3. level' \in [Numbers -> Nat]
        BY <4>1
      <4> QED BY <3>1, <4>1, <4>2, <4>3
    <3>3. CASE ~Referenced(<<n, level[n]>>)
      BY <1>2, <3>3 DEF Retire
    <3> QED BY <3>2, <3>3
  <2>2. UNCHANGED <<remove_N, preRemove_N, sstables, views, current_comp_index, bg_wait, wait,
                    kept, cst, inflight, cq>>
    BY <1>2 DEF Retire
  <2> QED BY <2>1, <2>2
<1>3. ASSUME NEW n \in Numbers, DropFlushed(n) PROVE FlushTypes'
  <2> DEFINE size == remove_N[n] - preRemove_N[n]
  <2>1. SubSeq(readonly[n], size + 1, Len(readonly[n])) \in Seq(Nat)
    <3>1. \A h \in (size + 1) .. Len(readonly[n]) : readonly[n][h] \in Nat
      <4>1. readonly[n] \in Seq(Nat) /\ size \in Nat /\ Len(readonly[n]) \in Nat
        BY <1>3, LenProperties DEF DropFlushed
      <4>2. \A h \in (size + 1) .. Len(readonly[n]) : h \in 1 .. Len(readonly[n])
        BY <4>1
      <4>3. \A h \in 1 .. Len(readonly[n]) : readonly[n][h] \in Nat
        BY <4>1, ElementOfSeq
      <4> QED BY <4>2, <4>3
    <3>2. size + 1 \in Int /\ Len(readonly[n]) \in Int
      OBVIOUS
    <3> HIDE DEF size
    <3> QED BY <3>1, <3>2, SubSeqProperties
  <2>2. readonly' \in [Numbers -> Seq(Nat)] /\ preRemove_N' \in [Numbers -> Nat]
    BY <1>3, <2>1 DEF DropFlushed
  <2>3. UNCHANGED <<level, retiring, remove_N, sstables, views, current_comp_index, bg_wait,
                    wait, kept, cst, inflight, cq>>
    BY <1>3 DEF DropFlushed
  <2> QED BY <2>2, <2>3
<1>4. ASSUME NEW c \in CompWorkers, Take(c) PROVE FlushTypes'
  <2>1. UNCHANGED <<taskVars, remove_N, sstables, views, current_comp_index, inflight, cq>>
    BY <1>4 DEF Take
  <2>2. /\ bg_wait' \in [CompWorkers -> Seq(Table)] /\ wait' \in [CompWorkers -> Seq(Table)]
        /\ kept' \in [CompWorkers -> Seq(Table)]
        /\ cst' \in [CompWorkers -> {"idle", "peek", "flush", "merge"}]
    BY <1>4 DEF Take
  <2> QED BY <2>1, <2>2 DEF taskVars
<1>5. ASSUME NEW c \in CompWorkers, Flush(c) PROVE FlushTypes'
  <2>1. Head(wait[c]) \in Table /\ Tail(wait[c]) \in Seq(Table) /\ Head(wait[c])[1] \in Numbers
    <3>1. wait[c] \in Seq(Table) /\ wait[c] # <<>>
      BY <1>5 DEF Flush
    <3> QED BY <3>1, RangeTail, TableParts
  <2>2. sstables' \in [Numbers -> Nat]
    <3> PICK m : m = Head(wait[c])[1]
      OBVIOUS
    <3>1. sstables' = [sstables EXCEPT ![m] = @ + 1] /\ m \in Numbers /\ sstables \in [Numbers -> Nat]
      BY <1>5, <2>1 DEF Flush, newSSTable
    <3> HIDE DEF FlushTypes
    <3> QED BY <3>1
  <2>4. /\ inflight' \in [CompWorkers -> SUBSET Table]
        /\ wait' \in [CompWorkers -> Seq(Table)]
    <3> PICK t, w : t = Head(wait[c]) /\ w = Tail(wait[c])
      OBVIOUS
    <3>1. \/ inflight' = [inflight EXCEPT ![c] = @ \cup {t}] /\ wait' = [wait EXCEPT ![c] = w]
          \/ inflight' = inflight /\ wait' = wait
      BY <1>5 DEF Flush, PrepWrite
    <3>2. /\ t \in Table /\ w \in Seq(Table)
          /\ inflight \in [CompWorkers -> SUBSET Table] /\ wait \in [CompWorkers -> Seq(Table)]
      BY <2>1
    <3> HIDE DEF FlushTypes
    <3>3. [wait EXCEPT ![c] = w] \in [CompWorkers -> Seq(Table)]
      BY <3>2
    <3>4. [inflight EXCEPT ![c] = @ \cup {t}] \in [CompWorkers -> SUBSET Table]
      BY <3>2
    <3> QED BY <3>1, <3>2, <3>3, <3>4
  <2>3. UNCHANGED <<taskVars, remove_N, views, current_comp_index, bg_wait, kept, cst, cq>>
    BY <1>5 DEF Flush
  <2> QED BY <2>2, <2>3, <2>4 DEF taskVars
<1>6. ASSUME NEW c \in CompWorkers, EndFlush(c) PROVE FlushTypes'
  <2>1. /\ kept' \in [CompWorkers -> Seq(Table)]
        /\ cst' \in [CompWorkers -> {"idle", "peek", "flush", "merge"}]
    BY <1>6, EmptySeq DEF EndFlush
  <2>2. UNCHANGED <<taskVars, remove_N, sstables, views, current_comp_index, bg_wait, wait, inflight, cq>>
    BY <1>6 DEF EndFlush
  <2> QED BY <2>1, <2>2 DEF taskVars
<1>7. ASSUME NEW c \in CompWorkers, Merge(c) PROVE FlushTypes'
  BY <1>7 DEF Merge, taskVars
<1>8. ASSUME NEW c \in CompWorkers, EndMerge(c) \/ Nothing(c) \/ EndPeek(c) PROVE FlushTypes'
  <2>1. cst' \in [CompWorkers -> {"idle", "peek", "flush", "merge"}]
    BY <1>8 DEF EndMerge, Nothing, EndPeek
  <2>2. UNCHANGED <<taskVars, remove_N, sstables, views, current_comp_index, bg_wait, wait, kept, inflight, cq>>
    BY <1>8 DEF EndMerge, Nothing, EndPeek
  <2> QED BY <2>1, <2>2 DEF taskVars
<1>9. ASSUME NEW c \in CompWorkers, Complete(c) PROVE FlushTypes'
  <2>1. PICK t \in inflight[c] : /\ inflight' = [inflight EXCEPT ![c] = @ \ {t}]
                                 /\ cq' = [cq EXCEPT ![c] = Append(@, t)]
    BY <1>9 DEF Complete
  <2>2. Append(cq[c], t) \in Seq(Table)
    BY AppendProperties
  <2>3. /\ inflight' \in [CompWorkers -> SUBSET Table]
        /\ cq' \in [CompWorkers -> Seq(Table)]
    BY <2>1, <2>2
  <2>4. UNCHANGED <<taskVars, remove_N, sstables, views, current_comp_index, bg_wait, wait, kept, cst>>
    BY <1>9 DEF Complete
  <2> QED BY <2>3, <2>4 DEF taskVars
<1>10. ASSUME NEW c \in CompWorkers, Peek(c) PROVE FlushTypes'
  <2> PICK t : t = Head(cq[c])
    OBVIOUS
  <2>1. t \in Table /\ Tail(cq[c]) \in Seq(Table) /\ t[1] \in Numbers /\ t[2] \in Nat
    <3>1. cq[c] \in Seq(Table) /\ cq[c] # <<>>
      BY <1>10 DEF Peek
    <3> QED BY <3>1, RangeTail, TableParts
  <2>2. Append(views[t[1]], t[2]) \in Seq(Nat)
    BY <2>1, AppendProperties
  <2>3. /\ views' \in [Numbers -> Seq(Nat)] /\ remove_N' \in [Numbers -> Nat]
        /\ cq' \in [CompWorkers -> Seq(Table)]
    <3> PICK w : w = Tail(cq[c])
      OBVIOUS
    <3>1. \/ /\ views' = [views EXCEPT ![t[1]] = Append(@, t[2])]
             /\ remove_N' = [remove_N EXCEPT ![t[1]] = @ + 1]
             /\ cq' = [cq EXCEPT ![c] = w]
          \/ UNCHANGED <<views, remove_N, cq>>
      BY <1>10 DEF Peek
    <3>2. /\ w \in Seq(Table) /\ cq \in [CompWorkers -> Seq(Table)]
          /\ views \in [Numbers -> Seq(Nat)] /\ remove_N \in [Numbers -> Nat]
      BY <2>1
    <3> HIDE DEF FlushTypes
    <3>3. [cq EXCEPT ![c] = w] \in [CompWorkers -> Seq(Table)]
      BY <3>2
    <3>4. [views EXCEPT ![t[1]] = Append(@, t[2])] \in [Numbers -> Seq(Nat)]
      BY <2>1, <2>2, <3>2
    <3>5. [remove_N EXCEPT ![t[1]] = @ + 1] \in [Numbers -> Nat]
      BY <2>1, <3>2
    <3> QED BY <3>1, <3>2, <3>3, <3>4, <3>5
  <2>4. UNCHANGED <<taskVars, sstables, current_comp_index, bg_wait, wait, kept, cst, inflight>>
    BY <1>10 DEF Peek
  <2> QED BY <2>3, <2>4 DEF taskVars
<1>11. CASE UNCHANGED vars
  BY <1>11 DEF vars, taskVars
<1> QED
  BY <1>1, <1>2, <1>3, <1>4, <1>5, <1>6, <1>7, <1>8, <1>9, <1>10, <1>11
  DEF Next, TaskWorker, CompWorker

-----------------------------------------------------------------------------
(* Sealed tables.                                                          *)

HandedParts == \A t : t \in Handed <=> t \in Table /\ t[2] < Sealed(t[1])

\* What a memtable sealed is at least what its worker has retired.
LEMMA SealedNat == FlushTypes => \A n \in Numbers : Sealed(n) \in Nat /\ Sealed(n) >= level[n]
BY DEF FlushTypes, Sealed

\* The tables handed over, by number and level.
LEMMA HandedIs == FlushTypes => HandedParts
<1> SUFFICES ASSUME FlushTypes, NEW t PROVE t \in Handed <=> t \in Table /\ t[2] < Sealed(t[1])
  BY DEF HandedParts
<1>1. \A n \in Numbers : Sealed(n) \in Nat
  BY SealedNat
<1>2. t \in Handed <=> \E n \in Numbers : t \in {n} \X (0 .. (Sealed(n) - 1))
  BY DEF Handed
<1>3. ASSUME NEW n \in Numbers, t \in {n} \X (0 .. (Sealed(n) - 1))
      PROVE  t \in Table /\ t[2] < Sealed(t[1])
  <2>1. t[1] = n /\ t[2] \in 0 .. (Sealed(n) - 1) /\ t = <<t[1], t[2]>>
    BY <1>3
  <2>2. t \in Table
    BY <1>1, <2>1 DEF Table
  <2> QED BY <1>1, <2>1, <2>2
<1>4. ASSUME t \in Table, t[2] < Sealed(t[1])
      PROVE  t[1] \in Numbers /\ t \in {t[1]} \X (0 .. (Sealed(t[1]) - 1))
  <2>1. t[1] \in Numbers /\ t[2] \in Nat /\ t = <<t[1], t[2]>>
    BY <1>4, TableParts
  <2>2. t[2] \in 0 .. (Sealed(t[1]) - 1)
    BY <1>1, <1>4, <2>1
  <2> QED BY <2>1, <2>2
<1> QED BY <1>2, <1>3, <1>4

\* The same after a step.
LEMMA HandedIsNext == FlushTypes' => HandedParts'
BY HandedIs, PTL

\* Only AddReadOnlyTable seals a table.
LEMMA SealedBy ==
  ASSUME FlushTypes, NEW n \in Numbers, AddReadOnlyTable(n)
  PROVE  /\ Sealed(n) = level[n] /\ Sealed(n)' = Sealed(n) + 1
         /\ \A m \in Numbers \ {n} : Sealed(m)' = Sealed(m)
<1>1. /\ ~retiring[n] /\ retiring' = [retiring EXCEPT ![n] = TRUE] /\ level' = level
      /\ level \in [Numbers -> Nat] /\ retiring \in [Numbers -> BOOLEAN]
  BY DEF AddReadOnlyTable, FlushTypes
<1>2. retiring'[n] /\ \A m \in Numbers \ {n} : retiring'[m] = retiring[m]
  BY <1>1
<1> QED BY <1>1, <1>2 DEF Sealed

\* Only AddReadOnlyTable, the retirement of a memtable, seals another table.
LEMMA SealedSame ==
  ASSUME FlushTypes, [Next]_vars, ~\E n \in Numbers : AddReadOnlyTable(n)
  PROVE  \A n \in Numbers : Sealed(n)' = Sealed(n)
<1>1. CASE UNCHANGED <<level, retiring>>
  BY <1>1 DEF Sealed
<1>2. ASSUME NEW n \in Numbers, Retire(n) PROVE \A m \in Numbers : Sealed(m)' = Sealed(m)
  <2>1. CASE UNCHANGED <<level, retiring>>
    BY <2>1 DEF Sealed
  <2>2. CASE level' = [level EXCEPT ![n] = @ + 1] /\ retiring' = [retiring EXCEPT ![n] = FALSE]
    <3>1. level \in [Numbers -> Nat] /\ retiring \in [Numbers -> BOOLEAN] /\ retiring[n]
      BY <1>2 DEF FlushTypes, Retire
    <3>2. /\ ~retiring'[n] /\ level'[n] = level[n] + 1
          /\ \A m \in Numbers \ {n} : retiring'[m] = retiring[m] /\ level'[m] = level[m]
      BY <2>2, <3>1
    <3> QED BY <3>1, <3>2 DEF Sealed
  <2> QED BY <1>2, <2>1, <2>2 DEF Retire
<1>3. ASSUME NEW n \in Numbers, DropFlushed(n) PROVE UNCHANGED <<level, retiring>>
  BY <1>3 DEF DropFlushed
<1>4. ASSUME NEW c \in CompWorkers, CompWorker(c) \/ Complete(c) PROVE UNCHANGED <<level, retiring>>
  BY <1>4 DEF CompWorker, Take, Flush, EndFlush, Merge, EndMerge, Nothing, Peek, EndPeek, Complete, taskVars
<1>5. CASE UNCHANGED vars
  BY <1>1, <1>5 DEF vars, taskVars
<1> QED BY <1>1, <1>2, <1>3, <1>4, <1>5 DEF Next, TaskWorker

\* What a completion that becomes a view does.
LEMMA PeekFacts ==
  ASSUME FlushTypes, NEW c \in CompWorkers, Peek(c), status' = "up"
  PROVE  LET t == Head(cq[c]) IN
         /\ t \in Table /\ t[1] \in Numbers /\ t[2] = Len(views[t[1]])
         /\ views'[t[1]] = Append(views[t[1]], t[2])
         /\ Len(views'[t[1]]) = Len(views[t[1]]) + 1
         /\ \A i \in DOMAIN views[t[1]] : views'[t[1]][i] = views[t[1]][i]
         /\ views'[t[1]][Len(views[t[1]]) + 1] = t[2]
         /\ DOMAIN views[t[1]] = 1 .. Len(views[t[1]]) /\ Len(views[t[1]]) \in Nat
         /\ DOMAIN views'[t[1]] = 1 .. Len(views[t[1]]) + 1
         /\ remove_N'[t[1]] = remove_N[t[1]] + 1
         /\ \A m \in Numbers \ {t[1]} : views'[m] = views[m] /\ remove_N'[m] = remove_N[m]
         /\ cq' = [cq EXCEPT ![c] = Tail(@)]
<1> DEFINE t == Head(cq[c])
<1>1. cq[c] \in Seq(Table) /\ cq[c] # <<>>
  BY DEF FlushTypes, Peek
<1>2. t \in Table
  BY <1>1, RangeTail
<1>3. t[1] \in Numbers /\ t[2] \in Nat
  BY <1>2, TableParts
<1>4. t[2] = Len(views[t[1]])
  BY DEF Peek, Load, InitMmap, ViewInit
<1>5. /\ views' = [views EXCEPT ![t[1]] = Append(@, t[2])]
      /\ remove_N' = [remove_N EXCEPT ![t[1]] = @ + 1]
      /\ cq' = [cq EXCEPT ![c] = Tail(@)]
  BY DEF Peek
<1>6. views \in [Numbers -> Seq(Nat)] /\ remove_N \in [Numbers -> Nat]
  BY DEF FlushTypes
<1>7. views'[t[1]] = Append(views[t[1]], t[2]) /\ remove_N'[t[1]] = remove_N[t[1]] + 1
  BY <1>3, <1>5, <1>6
<1>8. \A m \in Numbers \ {t[1]} : views'[m] = views[m] /\ remove_N'[m] = remove_N[m]
  BY <1>3, <1>5, <1>6
<1>9. views[t[1]] \in Seq(Nat)
  BY <1>3, <1>6
<1>10. /\ Len(views'[t[1]]) = Len(views[t[1]]) + 1
       /\ \A i \in 1 .. Len(views[t[1]]) : views'[t[1]][i] = views[t[1]][i]
       /\ views'[t[1]][Len(views[t[1]]) + 1] = t[2]
       /\ views'[t[1]] \in Seq(Nat)
  BY <1>3, <1>7, <1>9, AppendProperties
<1>11. /\ DOMAIN views[t[1]] = 1 .. Len(views[t[1]]) /\ Len(views[t[1]]) \in Nat
       /\ DOMAIN views'[t[1]] = 1 .. Len(views[t[1]]) + 1
  BY <1>9, <1>10, LenProperties
<1> QED BY <1>2, <1>3, <1>4, <1>5, <1>7, <1>8, <1>10, <1>11

\* Levels of a number that a step leaves alone.
LEMMA LevelsSame ==
  ASSUME NEW n \in Numbers, Levels(n), Sealed(n)' = Sealed(n), preRemove_N'[n] = preRemove_N[n],
         remove_N'[n] = remove_N[n], level'[n] = level[n], views'[n] = views[n], readonly'[n] = readonly[n]
  PROVE  Levels(n)'
BY DEF Levels

\* Every step keeps the views and the read-only vector of each number in level order.
LEMMA LevelsKept ==
  ASSUME FlushInv, FlushTypes', [Next]_vars
  PROVE  \A m \in Numbers : Levels(m)'
<1>0. FlushTypes /\ Pending /\ \A n \in Numbers : Levels(n)
  BY DEF FlushInv
<1>1. ASSUME NEW n \in Numbers, AddReadOnlyTable(n) PROVE \A m \in Numbers : Levels(m)'
  <2>1. UNCHANGED <<level, readonly, remove_N, preRemove_N, views>>
    BY <1>1 DEF AddReadOnlyTable
  <2>2. Sealed(n) \in Nat /\ remove_N[n] \in Nat
    BY <1>0, SealedNat DEF FlushTypes
  <2>3. Sealed(n)' = Sealed(n) + 1 /\ \A m \in Numbers \ {n} : Sealed(m)' = Sealed(m)
    BY <1>0, <1>1, SealedBy
  <2>4. Levels(n)'
    BY <1>0, <2>1, <2>2, <2>3 DEF Levels
  <2>5. \A m \in Numbers \ {n} : Levels(m)'
    BY <1>0, <2>1, <2>3, LevelsSame
  <2> QED BY <2>4, <2>5
<1> SUFFICES ASSUME ~\E n \in Numbers : AddReadOnlyTable(n) PROVE \A m \in Numbers : Levels(m)'
  BY <1>1
<1>s. \A m \in Numbers : Sealed(m)' = Sealed(m) /\ Sealed(m) \in Nat /\ Sealed(m) >= level[m]
  BY <1>0, SealedSame, SealedNat
<1>2. CASE UNCHANGED <<level, readonly, remove_N, preRemove_N, views>>
  BY <1>0, <1>s, <1>2, LevelsSame
<1>3. ASSUME NEW n \in Numbers, Retire(n), Referenced(<<n, level[n]>>) PROVE \A m \in Numbers : Levels(m)'
  <2>1. /\ readonly' = [readonly EXCEPT ![n] = Append(@, level[n])]
        /\ level' = [level EXCEPT ![n] = @ + 1]
        /\ UNCHANGED <<remove_N, preRemove_N, views>>
    BY <1>3 DEF Retire
  <2>2. readonly'[n] = Append(readonly[n], level[n]) /\ level'[n] = level[n] + 1
    BY <1>0, <2>1 DEF FlushTypes
  <2>3. \A m \in Numbers \ {n} : readonly'[m] = readonly[m] /\ level'[m] = level[m]
    BY <1>0, <2>1 DEF FlushTypes
  <2>4. /\ Len(readonly'[n]) = Len(readonly[n]) + 1 /\ Len(readonly[n]) \in Nat
        /\ DOMAIN readonly[n] = 1 .. Len(readonly[n]) /\ DOMAIN readonly'[n] = 1 .. Len(readonly[n]) + 1
        /\ \A i \in 1 .. Len(readonly[n]) : readonly'[n][i] = readonly[n][i]
        /\ readonly'[n][Len(readonly[n]) + 1] = level[n]
    <3>1. readonly[n] \in Seq(Nat) /\ level[n] \in Nat
      BY <1>0 DEF FlushTypes
    <3>2. /\ readonly'[n] \in Seq(Nat) /\ Len(readonly'[n]) = Len(readonly[n]) + 1
          /\ \A i \in 1 .. Len(readonly[n]) : readonly'[n][i] = readonly[n][i]
          /\ readonly'[n][Len(readonly[n]) + 1] = level[n]
      BY <2>2, <3>1, AppendProperties
    <3> QED BY <3>1, <3>2, LenProperties
  <2>5. level[n] \in Nat /\ preRemove_N[n] \in Nat
    BY <1>0 DEF FlushTypes
  <2>6. /\ Len(readonly'[n]) = level'[n] - preRemove_N[n] /\ preRemove_N[n] <= level'[n]
        /\ \A i \in DOMAIN readonly'[n] : readonly'[n][i] = preRemove_N[n] + i - 1
    <3>1. /\ Len(readonly[n]) = level[n] - preRemove_N[n] /\ preRemove_N[n] <= level[n]
          /\ \A i \in DOMAIN readonly[n] : readonly[n][i] = preRemove_N[n] + i - 1
      BY <1>0 DEF Levels
    <3>2. ASSUME NEW i \in DOMAIN readonly'[n] PROVE readonly'[n][i] = preRemove_N[n] + i - 1
      <4>1. i \in 1 .. Len(readonly[n]) \/ i = Len(readonly[n]) + 1
        BY <2>4
      <4>2. CASE i \in 1 .. Len(readonly[n])
        BY <2>4, <3>1, <4>2
      <4>3. CASE i = Len(readonly[n]) + 1
        BY <2>4, <2>5, <3>1, <4>3
      <4> QED BY <4>1, <4>2, <4>3
    <3>3. Len(readonly'[n]) = level'[n] - preRemove_N[n] /\ preRemove_N[n] <= level'[n]
      BY <2>2, <2>4, <2>5, <3>1
    <3> QED BY <3>2, <3>3
  <2>7. Levels(n)'
    BY <1>0, <1>s, <2>1, <2>6 DEF Levels
  <2>8. \A m \in Numbers \ {n} : Levels(m)'
    BY <1>0, <1>s, <2>1, <2>3, LevelsSame
  <2> QED BY <2>7, <2>8
<1>4. ASSUME NEW n \in Numbers, DropFlushed(n) PROVE \A m \in Numbers : Levels(m)'
  <2> PICK size : size = remove_N[n] - preRemove_N[n]
    OBVIOUS
  <2>1. /\ readonly' = [readonly EXCEPT ![n] = SubSeq(@, size + 1, Len(@))]
        /\ preRemove_N' = [preRemove_N EXCEPT ![n] = remove_N[n]]
        /\ UNCHANGED <<level, remove_N, views>> /\ remove_N[n] > preRemove_N[n] /\ ~retiring[n]
    BY <1>4 DEF DropFlushed
  <2>2. /\ readonly'[n] = SubSeq(readonly[n], size + 1, Len(readonly[n])) /\ preRemove_N'[n] = remove_N[n]
    BY <1>0, <2>1 DEF FlushTypes
  <2>3. \A m \in Numbers \ {n} : readonly'[m] = readonly[m] /\ preRemove_N'[m] = preRemove_N[m]
    BY <1>0, <2>1 DEF FlushTypes
  <2>4. /\ level[n] \in Nat /\ preRemove_N[n] \in Nat /\ remove_N[n] \in Nat
        /\ readonly[n] \in Seq(Nat) /\ readonly'[n] \in Seq(Nat)
    BY <1>0 DEF FlushTypes
  <2>5. Sealed(n) = level[n]
    BY <2>1, <2>4 DEF Sealed
  <2>l. /\ preRemove_N[n] <= remove_N[n] /\ remove_N[n] <= Sealed(n) /\ preRemove_N[n] <= level[n]
        /\ Len(readonly[n]) = level[n] - preRemove_N[n]
        /\ \A i \in DOMAIN readonly[n] : readonly[n][i] = preRemove_N[n] + i - 1
    BY <1>0 DEF Levels
  <2>6. size \in Nat /\ size <= Len(readonly[n]) /\ Len(readonly[n]) \in Nat
    BY <2>l, <2>1, <2>4, <2>5
  <2>7. /\ Len(readonly'[n]) = Len(readonly[n]) - size
        /\ \A i \in 1 .. Len(readonly[n]) - size : readonly'[n][i] = readonly[n][size + i]
    <3>1. \A i \in size + 1 .. Len(readonly[n]) : readonly[n][i] \in Nat
      BY <2>4, <2>6, ElementOfSeq
    <3>2. size + 1 \in Int /\ Len(readonly[n]) \in Int
      BY <2>6
    <3>3. /\ Len(readonly'[n]) = IF size + 1 <= Len(readonly[n]) THEN Len(readonly[n]) - (size + 1) + 1 ELSE 0
          /\ \A i \in 1 .. Len(readonly[n]) - (size + 1) + 1 : readonly'[n][i] = readonly[n][size + 1 + i - 1]
      BY <2>2, <3>1, <3>2, SubSeqProperties
    <3> QED BY <2>6, <3>3
  <2>8. DOMAIN readonly[n] = 1 .. Len(readonly[n]) /\ DOMAIN readonly'[n] = 1 .. Len(readonly'[n])
    BY <2>4, LenProperties
  <2>9. /\ Len(readonly'[n]) = level[n] - remove_N[n] /\ remove_N[n] <= level[n]
    BY <2>l, <2>4, <2>5, <2>6, <2>7
  <2>10. \A i \in DOMAIN readonly'[n] : readonly'[n][i] = remove_N[n] + i - 1
    <3> SUFFICES ASSUME NEW i \in DOMAIN readonly'[n] PROVE readonly'[n][i] = remove_N[n] + i - 1
      OBVIOUS
    <3>1. i \in 1 .. Len(readonly[n]) - size /\ i \in Nat
      BY <2>6, <2>7, <2>8
    <3>2. size + i \in DOMAIN readonly[n]
      BY <2>6, <2>8, <3>1
    <3>3. readonly'[n][i] = preRemove_N[n] + (size + i) - 1
      BY <2>7, <2>l, <3>1, <3>2
    <3>4. preRemove_N[n] + (size + i) - 1 = remove_N[n] + i - 1
      <4>1. preRemove_N[n] \in Nat /\ remove_N[n] \in Nat /\ size = remove_N[n] - preRemove_N[n] /\ i \in Nat
        BY <2>4, <3>1
      <4> QED BY <4>1
    <3> QED BY <3>3, <3>4
  <2>11. Levels(n)'
    <3>1. remove_N[n] = Len(views[n]) /\ \A i \in DOMAIN views[n] : views[n][i] = i - 1
      BY <1>0 DEF Levels
    <3>2. Sealed(n)' = Sealed(n)
      BY <1>s
    <3>3. remove_N'[n] = remove_N[n] /\ views'[n] = views[n] /\ level'[n] = level[n]
      BY <2>1
    <3>4. /\ preRemove_N'[n] <= remove_N'[n] /\ remove_N'[n] <= Sealed(n)' /\ preRemove_N'[n] <= level'[n]
          /\ remove_N'[n] = Len(views'[n]) /\ Len(readonly'[n]) = level'[n] - preRemove_N'[n]
      BY <2>l, <2>2, <2>4, <2>9, <3>1, <3>2, <3>3
    <3>5. \A i \in DOMAIN views'[n] : views'[n][i] = i - 1
      BY <3>1, <3>3
    <3>6. \A i \in DOMAIN readonly'[n] : readonly'[n][i] = preRemove_N'[n] + i - 1
      BY <2>2, <2>10
    <3> QED BY <3>4, <3>5, <3>6 DEF Levels
  <2>12. \A m \in Numbers \ {n} : Levels(m)'
    BY <1>0, <1>s, <2>1, <2>3, LevelsSame
  <2> QED BY <2>11, <2>12
<1>5. ASSUME NEW c \in CompWorkers, Peek(c), status' = "up" PROVE \A m \in Numbers : Levels(m)'
  <2> PICK t : t = Head(cq[c])
    OBVIOUS
  <2> PICK n : n = t[1]
    OBVIOUS
  <2>1. /\ t \in Table /\ n \in Numbers /\ t[2] = Len(views[n])
        /\ Len(views'[n]) = Len(views[n]) + 1
        /\ \A i \in DOMAIN views[n] : views'[n][i] = views[n][i]
        /\ views'[n][Len(views[n]) + 1] = t[2]
        /\ DOMAIN views[n] = 1 .. Len(views[n]) /\ Len(views[n]) \in Nat
        /\ DOMAIN views'[n] = 1 .. Len(views[n]) + 1
        /\ remove_N'[n] = remove_N[n] + 1
        /\ \A m \in Numbers \ {n} : views'[m] = views[m] /\ remove_N'[m] = remove_N[m]
    <3>1. Peek(c) /\ status' = "up" /\ FlushTypes
      BY <1>0, <1>5
    <3>2. /\ t \in Table /\ t[1] \in Numbers /\ t[2] = Len(views[t[1]])
          /\ Len(views'[t[1]]) = Len(views[t[1]]) + 1
          /\ \A i \in DOMAIN views[t[1]] : views'[t[1]][i] = views[t[1]][i]
          /\ views'[t[1]][Len(views[t[1]]) + 1] = t[2]
          /\ DOMAIN views[t[1]] = 1 .. Len(views[t[1]]) /\ Len(views[t[1]]) \in Nat
          /\ DOMAIN views'[t[1]] = 1 .. Len(views[t[1]]) + 1
          /\ remove_N'[t[1]] = remove_N[t[1]] + 1
          /\ \A m \in Numbers \ {t[1]} : views'[m] = views[m] /\ remove_N'[m] = remove_N[m]
      BY <3>1, PeekFacts
    <3> QED BY <3>2
  <2>2. UNCHANGED <<level, readonly, preRemove_N>>
    BY <1>5 DEF Peek, taskVars
  <2>3. t[2] < Sealed(n)
    <3>1. cq[c] \in Seq(Table) /\ cq[c] # <<>>
      BY <1>0, <1>5 DEF FlushTypes, Peek
    <3>2. t \in Content("cq", c)
      BY <3>1, RangeTail DEF Content
    <3>3. t \in Handed
      BY <1>0, <3>2 DEF Pending, Stages
    <3> QED BY <1>0, <3>3, HandedIs DEF HandedParts
  <2>4. \A i \in DOMAIN views'[n] : views'[n][i] = i - 1
    <3>1. \A i \in DOMAIN views[n] : views[n][i] = i - 1
      BY <1>0, <2>1 DEF Levels
    <3>k. PICK k \in Nat : k = Len(views[n])
      BY <2>1
    <3>2. DOMAIN views[n] = 1 .. k /\ DOMAIN views'[n] = 1 .. k + 1 /\ views'[n][k + 1] = k
      BY <2>1, <3>k
    <3>3. \A i \in DOMAIN views[n] : views'[n][i] = i - 1
      BY <2>1, <3>1
    <3>4. \A i \in 1 .. k + 1 : i \in 1 .. k \/ (i = k + 1 /\ i - 1 = k)
      OBVIOUS
    <3> QED BY <3>2, <3>3, <3>4
  <2>5. preRemove_N[n] \in Nat /\ remove_N[n] \in Nat
    BY <1>0, <2>1 DEF FlushTypes
  <2>6. preRemove_N[n] <= remove_N'[n] /\ remove_N'[n] <= Sealed(n) /\ remove_N'[n] = Len(views'[n])
    <3>1. preRemove_N[n] <= remove_N[n] /\ remove_N[n] = Len(views[n]) /\ Sealed(n) \in Nat
      BY <1>0, <1>s, <2>1 DEF Levels
    <3>2. Len(views[n]) \in Nat /\ t[2] = Len(views[n])
      BY <2>1
    <3>3. remove_N'[n] = remove_N[n] + 1 /\ Len(views'[n]) = Len(views[n]) + 1
      BY <2>1
    <3> QED BY <2>3, <2>5, <3>1, <3>2, <3>3
  <2>7. Levels(n)'
    BY <1>0, <1>s, <2>1, <2>2, <2>4, <2>6 DEF Levels
  <2>8. \A m \in Numbers \ {n} : Levels(m)'
    BY <1>0, <1>s, <2>1, <2>2, LevelsSame
  <2> QED BY <2>7, <2>8
<1>6. ASSUME NEW n \in Numbers, Retire(n), ~Referenced(<<n, level[n]>>) PROVE \A m \in Numbers : Levels(m)'
  BY <1>2, <1>6 DEF Retire
<1>7. ASSUME NEW c \in CompWorkers, Peek(c), status' # "up" PROVE \A m \in Numbers : Levels(m)'
  BY <1>2, <1>7 DEF Peek, taskVars
<1>8. ASSUME NEW c \in CompWorkers,
             Take(c) \/ Flush(c) \/ EndFlush(c) \/ Merge(c) \/ EndMerge(c) \/ Nothing(c) \/ EndPeek(c) \/ Complete(c)
      PROVE  \A m \in Numbers : Levels(m)'
  BY <1>2, <1>8 DEF Take, Flush, EndFlush, Merge, EndMerge, Nothing, EndPeek, Complete, taskVars
<1>9. CASE UNCHANGED vars
  BY <1>2, <1>9 DEF vars, taskVars
<1> QED BY <1>3, <1>4, <1>5, <1>6, <1>7, <1>8, <1>9 DEF Next, TaskWorker, CompWorker

-----------------------------------------------------------------------------
(* Stages.                                                                 *)

\* The stages of a CompWorker, written out.
LEMMA ContentIs ==
  \A c : /\ Content("bg_wait", c) = Range(bg_wait[c]) /\ Content("wait", c) = Range(wait[c])
         /\ Content("inflight", c) = inflight[c] /\ Content("cq", c) = Range(cq[c])
BY DEF Content

\* The same after a step.
LEMMA ContentIsNext ==
  \A c : /\ Content("bg_wait", c)' = Range(bg_wait'[c]) /\ Content("wait", c)' = Range(wait'[c])
         /\ Content("inflight", c)' = inflight'[c] /\ Content("cq", c)' = Range(cq'[c])
BY DEF Content

\* A CompWorker whose vectors and ring a step leaves alone has the same content.
LEMMA ContentSame ==
  \A d : /\ bg_wait'[d] = bg_wait[d] => Content("bg_wait", d)' = Content("bg_wait", d)
         /\ wait'[d] = wait[d] => Content("wait", d)' = Content("wait", d)
         /\ inflight'[d] = inflight[d] => Content("inflight", d)' = Content("inflight", d)
         /\ cq'[d] = cq[d] => Content("cq", d)' = Content("cq", d)
BY DEF Content

\* A step that seals nothing hands nothing over.
LEMMA HandedSame ==
  ASSUME FlushTypes, FlushTypes', \A n \in Numbers : Sealed(n)' = Sealed(n)
  PROVE  Handed' = Handed
<1>1. HandedParts /\ HandedParts'
  BY HandedIs, HandedIsNext
<1>2. \A t : t \in Handed' <=> t \in Handed
  BY <1>1, TableParts DEF HandedParts
<1> QED BY <1>2

\* AddReadOnlyTable hands over one table that was not handed over before.
LEMMA HandedBy ==
  ASSUME FlushTypes, FlushTypes', NEW n \in Numbers, AddReadOnlyTable(n)
  PROVE  <<n, level[n]>> \notin Handed /\ Handed' = Handed \cup {<<n, level[n]>>}
<1> PICK t : t = <<n, level[n]>>
  OBVIOUS
<1>1. level[n] \in Nat
  BY DEF FlushTypes
<1>2. t \in Table /\ t[1] = n /\ t[2] = level[n]
  BY <1>1 DEF Table
<1>3. /\ Sealed(n) = level[n] /\ Sealed(n)' = Sealed(n) + 1
      /\ \A m \in Numbers \ {n} : Sealed(m)' = Sealed(m)
  BY SealedBy
<1>4. HandedParts /\ HandedParts'
  BY HandedIs, HandedIsNext
<1>5. t \notin Handed
  BY <1>1, <1>2, <1>3, <1>4 DEF HandedParts
<1>6. ASSUME NEW u \in Table PROVE u \in Handed' <=> u \in Handed \/ u = t
  <2>1. u[1] \in Numbers /\ u[2] \in Nat /\ u = <<u[1], u[2]>>
    BY <1>6, TableParts
  <2>2. CASE u[1] = n
    BY <1>1, <1>3, <1>4, <2>1, <2>2 DEF HandedParts
  <2>3. CASE u[1] # n
    BY <1>2, <1>3, <1>4, <2>1, <2>3 DEF HandedParts
  <2> QED BY <2>2, <2>3
<1>7. ASSUME NEW u PROVE u \in Handed' <=> u \in Handed \/ u = t
  <2>1. u \in Handed => u \in Table
    BY <1>4 DEF HandedParts
  <2>2. u \in Handed' => u \in Table
    BY <1>4 DEF HandedParts
  <2> QED BY <1>2, <1>6, <2>1, <2>2
<1> QED BY <1>5, <1>7

\* Tables go from one stage of a CompWorker to another.
LEMMA Moves ==
  ASSUME Pending, Apart, NoneLost, Handed' = Handed, views' = views,
         NEW q \in Stages, NEW r \in Stages, NEW c \in CompWorkers, NEW S, q # r,
         S \subseteq Content(q, c),
         Content(q, c)' = Content(q, c) \ S, Content(r, c)' = Content(r, c) \cup S,
         \A p \in Stages, d \in CompWorkers :
           p \notin {q, r} \/ d # c => Content(p, d)' = Content(p, d)
  PROVE  Pending' /\ Apart' /\ NoneLost'
<1>1. \A t : Viewed(t)' <=> Viewed(t)
  BY DEF Viewed
<1>2. \A p \in Stages, d \in CompWorkers : \A t :
        t \in Content(p, d)' => \/ t \in Content(p, d) /\ ~(t \in S)
                                \/ t \in S /\ p = r /\ d = c
  <2> SUFFICES ASSUME NEW p \in Stages, NEW d \in CompWorkers, NEW t, t \in Content(p, d)'
               PROVE  \/ t \in Content(p, d) /\ ~(t \in S)
                      \/ t \in S /\ p = r /\ d = c
    OBVIOUS
  <2>1. CASE t \in S
    BY <2>1 DEF Apart
  <2>2. CASE t \notin S
    BY <2>2
  <2> QED BY <2>1, <2>2
<1>3. \A p \in Stages, d \in CompWorkers : \A t :
        t \in Content(p, d) => t \in Content(p, d)' \/ t \in Content(r, c)'
  OBVIOUS
<1>4. Pending'
  BY <1>1, <1>2 DEF Pending
<1>5. Apart'
  <2> SUFFICES ASSUME NEW p \in Stages, NEW o \in Stages, NEW d \in CompWorkers, NEW e \in CompWorkers,
                      NEW t, t \in Content(p, d)', t \in Content(o, e)'
               PROVE  p = o /\ d = e
    BY DEF Apart
  <2>1. CASE t \in S
    BY <1>2, <2>1
  <2>2. CASE t \notin S
    BY <1>2, <2>2 DEF Apart
  <2> QED BY <2>1, <2>2
<1>6. NoneLost'
  BY <1>1, <1>3 DEF NoneLost
<1> QED BY <1>4, <1>5, <1>6

\* A table is handed to a CompWorker.
LEMMA Comes ==
  ASSUME Pending, Apart, NoneLost, views' = views, NEW t, t \notin Handed, ~Viewed(t), Handed' = Handed \cup {t},
         NEW c \in CompWorkers, Content("bg_wait", c)' = Content("bg_wait", c) \cup {t},
         \A p \in Stages, d \in CompWorkers :
           p # "bg_wait" \/ d # c => Content(p, d)' = Content(p, d)
  PROVE  Pending' /\ Apart' /\ NoneLost'
<1>1. \A u : Viewed(u)' <=> Viewed(u)
  BY DEF Viewed
<1>2. \A p \in Stages, d \in CompWorkers : \A u :
        u \in Content(p, d)' => \/ u \in Content(p, d) /\ u # t
                                \/ u = t /\ p = "bg_wait" /\ d = c
  BY DEF Pending
<1>3. \A p \in Stages, d \in CompWorkers : \A u : u \in Content(p, d) => u \in Content(p, d)'
  OBVIOUS
<1>4. Pending'
  BY <1>1, <1>2 DEF Pending
<1>5. Apart'
  <2> SUFFICES ASSUME NEW p \in Stages, NEW o \in Stages, NEW d \in CompWorkers, NEW e \in CompWorkers,
                      NEW u, u \in Content(p, d)', u \in Content(o, e)'
               PROVE  p = o /\ d = e
    BY DEF Apart
  <2>1. CASE u = t
    BY <1>2, <2>1
  <2>2. CASE u # t
    BY <1>2, <2>2 DEF Apart
  <2> QED BY <2>1, <2>2
<1>6. NoneLost'
  <2>1. t \in Content("bg_wait", c)' /\ "bg_wait" \in Stages
    BY DEF Stages
  <2> QED BY <1>1, <1>3, <2>1 DEF NoneLost
<1> QED BY <1>4, <1>5, <1>6

\* A table gets its view.
LEMMA Goes ==
  ASSUME Pending, Apart, NoneLost, Handed' = Handed, NEW t, NEW c \in CompWorkers,
         t \in Content("cq", c), Content("cq", c)' = Content("cq", c) \ {t},
         \A u \in Handed : Viewed(u)' <=> Viewed(u) \/ u = t,
         \A p \in Stages, d \in CompWorkers :
           p # "cq" \/ d # c => Content(p, d)' = Content(p, d)
  PROVE  Pending' /\ Apart' /\ NoneLost'
<1>0. "cq" \in Stages
  BY DEF Stages
<1>1. \A p \in Stages, d \in CompWorkers : \A u :
        u \in Content(p, d)' <=> u \in Content(p, d) /\ u # t
  BY <1>0 DEF Apart
<1>2. Pending'
  BY <1>1 DEF Pending
<1>3. Apart'
  BY <1>1 DEF Apart
<1>4. NoneLost'
  BY <1>1 DEF NoneLost
<1> QED BY <1>2, <1>3, <1>4

\* Nothing is moved.
LEMMA Stays ==
  ASSUME Pending, Apart, NoneLost, Handed' = Handed, views' = views,
         \A p \in Stages, d \in CompWorkers : Content(p, d)' = Content(p, d)
  PROVE  Pending' /\ Apart' /\ NoneLost'
<1>1. \A u : Viewed(u)' <=> Viewed(u)
  BY DEF Viewed
<1> QED BY <1>1 DEF Pending, Apart, NoneLost

\* Every step keeps each table in one stage until it has its view.
LEMMA StagesKept ==
  ASSUME FlushInv, FlushTypes', [Next]_vars
  PROVE  Pending' /\ Apart' /\ NoneLost'
<1>0. FlushTypes /\ Pending /\ Apart /\ NoneLost /\ Distinct /\ BatchOnly /\ \A n \in Numbers : Levels(n)
  BY DEF FlushInv
<1>1. ASSUME NEW n \in Numbers, AddReadOnlyTable(n) PROVE Pending' /\ Apart' /\ NoneLost'
  <2> PICK t, c : t = <<n, level[n]>> /\ c = current_comp_index
    OBVIOUS
  <2>1. /\ bg_wait' = [bg_wait EXCEPT ![c] = Append(@, t)]
        /\ UNCHANGED <<level, views, wait, inflight, cq>>
    BY <1>1 DEF AddReadOnlyTable, AddSStable
  <2>2. /\ c \in CompWorkers /\ level[n] \in Nat /\ bg_wait \in [CompWorkers -> Seq(Table)]
    BY <1>0 DEF FlushTypes
  <2>3. t \in Table /\ t[1] = n /\ t[2] = level[n]
    BY <2>2 DEF Table
  <2>4. bg_wait'[c] = Append(bg_wait[c], t) /\ bg_wait[c] \in Seq(Table)
    BY <2>1, <2>2
  <2>5. Range(bg_wait'[c]) = Range(bg_wait[c]) \cup {t}
    BY <2>3, <2>4, RangeAppend
  <2>6. Content("bg_wait", c)' = Content("bg_wait", c) \cup {t}
    BY <2>5, ContentIs, ContentIsNext
  <2>7. ASSUME NEW p \in Stages, NEW d \in CompWorkers, p # "bg_wait" \/ d # c
        PROVE  Content(p, d)' = Content(p, d)
    <3>1. CASE p = "bg_wait"
      <4>1. bg_wait'[d] = bg_wait[d]
        BY <2>1, <2>2, <2>7, <3>1
      <4> QED BY <3>1, <4>1, ContentSame
    <3>2. CASE p # "bg_wait"
      BY <2>1, <3>2, ContentSame DEF Stages
    <3> QED BY <3>1, <3>2
  <2>8. /\ Sealed(n) = level[n] /\ Sealed(n)' = Sealed(n) + 1
        /\ \A m \in Numbers \ {n} : Sealed(m)' = Sealed(m)
    BY <1>0, <1>1, SealedBy
  <2>9. t \notin Handed
    BY <1>0, <1>1, HandedBy
  <2>10. Handed' = Handed \cup {t}
    BY <1>0, <1>1, HandedBy
  <2>11. ~Viewed(t)
    <3>1. Len(views[n]) = remove_N[n] /\ remove_N[n] <= Sealed(n)
      BY <1>0 DEF Levels
    <3>2. remove_N[n] \in Nat
      BY <1>0 DEF FlushTypes
    <3> QED BY <2>2, <2>3, <2>8, <3>1, <3>2 DEF Viewed
  <2>12. views' = views
    BY <2>1
  <2> QED BY <1>0, <2>2, <2>6, <2>7, <2>9, <2>10, <2>11, <2>12, Comes
<1> SUFFICES ASSUME ~\E n \in Numbers : AddReadOnlyTable(n) PROVE Pending' /\ Apart' /\ NoneLost'
  BY <1>1
<1>h. Handed' = Handed
  BY <1>0, SealedSame, HandedSame
<1>2. CASE UNCHANGED <<views, bg_wait, wait, inflight, cq>>
  <2>1. \A p \in Stages, d \in CompWorkers : Content(p, d)' = Content(p, d)
    BY <1>2, ContentSame DEF Stages
  <2> QED BY <1>0, <1>h, <1>2, <2>1, Stays
<1>3. ASSUME NEW c \in CompWorkers, Take(c) PROVE Pending' /\ Apart' /\ NoneLost'
  <2>1. /\ bg_wait' = [bg_wait EXCEPT ![c] = kept[c]] /\ wait' = [wait EXCEPT ![c] = bg_wait[c]]
        /\ UNCHANGED <<views, inflight, cq>> /\ cst[c] = "idle"
    BY <1>3 DEF Take
  <2>2. bg_wait \in [CompWorkers -> Seq(Table)] /\ wait \in [CompWorkers -> Seq(Table)]
    BY <1>0 DEF FlushTypes
  <2>3. kept[c] = <<>> /\ wait[c] = <<>>
    BY <1>0, <2>1 DEF BatchOnly
  <2>4. bg_wait'[c] = <<>> /\ wait'[c] = bg_wait[c]
    BY <2>1, <2>2, <2>3
  <2>5. Range(<<>>) = {}
    BY DEF Range
  <2>6. /\ Content("bg_wait", c)' = Content("bg_wait", c) \ Content("bg_wait", c)
        /\ Content("wait", c)' = Content("wait", c) \cup Content("bg_wait", c)
    BY <2>3, <2>4, <2>5, ContentIs, ContentIsNext
  <2>7. ASSUME NEW p \in Stages, NEW d \in CompWorkers, p \notin {"bg_wait", "wait"} \/ d # c
        PROVE  Content(p, d)' = Content(p, d)
    <3>1. CASE p \in {"bg_wait", "wait"}
      <4>1. bg_wait'[d] = bg_wait[d] /\ wait'[d] = wait[d]
        BY <2>1, <2>2, <2>7, <3>1
      <4> QED BY <3>1, <4>1, ContentSame
    <3>2. CASE p \notin {"bg_wait", "wait"}
      BY <2>1, <3>2, ContentSame DEF Stages
    <3> QED BY <3>1, <3>2
  <2>8. "bg_wait" \in Stages /\ "wait" \in Stages /\ "bg_wait" # "wait" /\ views' = views
    BY <2>1 DEF Stages
  <2>9. PICK S : S = Content("bg_wait", c)
    OBVIOUS
  <2>10. S \subseteq Content("bg_wait", c) /\ Content("bg_wait", c)' = Content("bg_wait", c) \ S
         /\ Content("wait", c)' = Content("wait", c) \cup S
    BY <2>6, <2>9
  <2> QED BY <1>0, <1>h, <2>7, <2>8, <2>10, Moves
<1>4. ASSUME NEW c \in CompWorkers, Flush(c) PROVE Pending' /\ Apart' /\ NoneLost'
  <2> PICK t, w : t = Head(wait[c]) /\ w = Tail(wait[c])
    OBVIOUS
  <2>1. CASE UNCHANGED <<inflight, wait>>
    BY <1>2, <1>4, <2>1 DEF Flush
  <2>2. CASE inflight' = [inflight EXCEPT ![c] = @ \cup {t}] /\ wait' = [wait EXCEPT ![c] = w]
    <3>1. UNCHANGED <<views, bg_wait, cq>> /\ wait[c] # <<>>
      BY <1>4 DEF Flush
    <3>2. inflight \in [CompWorkers -> SUBSET Table] /\ wait \in [CompWorkers -> Seq(Table)]
      BY <1>0 DEF FlushTypes
    <3>3. inflight'[c] = inflight[c] \cup {t} /\ wait'[c] = w /\ wait[c] \in Seq(Table)
      BY <2>2, <3>2
    <3>4. IsInjective(wait[c])
      BY <1>0 DEF Distinct
    <3>5. t \in Range(wait[c]) /\ Range(w) = Range(wait[c]) \ {t}
      BY <3>1, <3>3, <3>4, RangeTail
    <3>6. /\ {t} \subseteq Content("wait", c) /\ Content("wait", c)' = Content("wait", c) \ {t}
          /\ Content("inflight", c)' = Content("inflight", c) \cup {t}
      BY <3>3, <3>5, ContentIs, ContentIsNext
    <3>7. ASSUME NEW p \in Stages, NEW d \in CompWorkers, p \notin {"wait", "inflight"} \/ d # c
          PROVE  Content(p, d)' = Content(p, d)
      <4>1. CASE p \in {"wait", "inflight"}
        <5>1. wait'[d] = wait[d] /\ inflight'[d] = inflight[d]
          BY <2>2, <3>2, <3>7, <4>1
        <5> QED BY <4>1, <5>1, ContentSame
      <4>2. CASE p \notin {"wait", "inflight"}
        BY <3>1, <4>2, ContentSame DEF Stages
      <4> QED BY <4>1, <4>2
    <3>8. "wait" \in Stages /\ "inflight" \in Stages /\ "wait" # "inflight" /\ views' = views
      BY <3>1 DEF Stages
    <3>9. PICK S : S = {t}
      OBVIOUS
    <3>10. /\ S \subseteq Content("wait", c) /\ Content("wait", c)' = Content("wait", c) \ S
           /\ Content("inflight", c)' = Content("inflight", c) \cup S
      BY <3>6, <3>9
    <3> QED BY <1>0, <1>h, <3>7, <3>8, <3>10, Moves
  <2> QED BY <1>4, <2>1, <2>2 DEF Flush, PrepWrite
<1>5. ASSUME NEW c \in CompWorkers, Complete(c) PROVE Pending' /\ Apart' /\ NoneLost'
  <2>1. PICK t \in inflight[c] : /\ inflight' = [inflight EXCEPT ![c] = @ \ {t}]
                                 /\ cq' = [cq EXCEPT ![c] = Append(@, t)]
    BY <1>5 DEF Complete
  <2>2. UNCHANGED <<views, bg_wait, wait>>
    BY <1>5 DEF Complete
  <2>3. inflight \in [CompWorkers -> SUBSET Table] /\ cq \in [CompWorkers -> Seq(Table)]
    BY <1>0 DEF FlushTypes
  <2>4. /\ inflight'[c] = inflight[c] \ {t} /\ cq'[c] = Append(cq[c], t)
        /\ cq[c] \in Seq(Table) /\ t \in Table
    BY <2>1, <2>3
  <2>5. Range(cq'[c]) = Range(cq[c]) \cup {t}
    BY <2>4, RangeAppend
  <2>6. /\ {t} \subseteq Content("inflight", c) /\ Content("inflight", c)' = Content("inflight", c) \ {t}
        /\ Content("cq", c)' = Content("cq", c) \cup {t}
    BY <2>4, <2>5, ContentIs, ContentIsNext
  <2>7. ASSUME NEW p \in Stages, NEW d \in CompWorkers, p \notin {"inflight", "cq"} \/ d # c
        PROVE  Content(p, d)' = Content(p, d)
    <3>1. CASE p \in {"inflight", "cq"}
      <4>1. inflight'[d] = inflight[d] /\ cq'[d] = cq[d]
        BY <2>1, <2>3, <2>7, <3>1
      <4> QED BY <3>1, <4>1, ContentSame
    <3>2. CASE p \notin {"inflight", "cq"}
      BY <2>2, <3>2, ContentSame DEF Stages
    <3> QED BY <3>1, <3>2
  <2>8. "inflight" \in Stages /\ "cq" \in Stages /\ "inflight" # "cq" /\ views' = views
    BY <2>2 DEF Stages
  <2> QED BY <1>0, <1>h, <2>6, <2>7, <2>8, Moves
<1>6. ASSUME NEW c \in CompWorkers, Peek(c) PROVE Pending' /\ Apart' /\ NoneLost'
  <2>1. CASE status' # "up"
    BY <1>2, <1>6, <2>1 DEF Peek
  <2>2. CASE status' = "up"
    <3> PICK t : t = Head(cq[c])
      OBVIOUS
    <3>1. /\ t \in Table /\ t[1] \in Numbers /\ t[2] = Len(views[t[1]])
          /\ Len(views'[t[1]]) = Len(views[t[1]]) + 1 /\ Len(views[t[1]]) \in Nat
          /\ \A m \in Numbers \ {t[1]} : views'[m] = views[m]
          /\ cq' = [cq EXCEPT ![c] = Tail(@)]
      BY <1>0, <1>6, <2>2, PeekFacts
    <3>2. UNCHANGED <<bg_wait, wait, inflight>> /\ cq[c] # <<>>
      BY <1>6 DEF Peek
    <3>3. cq \in [CompWorkers -> Seq(Table)] /\ IsInjective(cq[c])
      BY <1>0 DEF FlushTypes, Distinct
    <3>4. cq'[c] = Tail(cq[c]) /\ cq[c] \in Seq(Table)
      BY <3>1, <3>3
    <3>5. t \in Range(cq[c]) /\ Range(cq'[c]) = Range(cq[c]) \ {t}
      BY <3>2, <3>3, <3>4, RangeTail
    <3>6. t \in Content("cq", c) /\ Content("cq", c)' = Content("cq", c) \ {t}
      BY <3>5, ContentIs, ContentIsNext
    <3>7. ASSUME NEW p \in Stages, NEW d \in CompWorkers, p # "cq" \/ d # c
          PROVE  Content(p, d)' = Content(p, d)
      <4>1. CASE p = "cq"
        <5>1. cq'[d] = cq[d]
          BY <3>1, <3>3, <3>7, <4>1
        <5> QED BY <4>1, <5>1, ContentSame
      <4>2. CASE p # "cq"
        BY <3>2, <4>2, ContentSame DEF Stages
      <4> QED BY <4>1, <4>2
    <3>8. ASSUME NEW u \in Handed PROVE Viewed(u)' <=> Viewed(u) \/ u = t
      <4>1. u \in Table
        BY <1>0, HandedIs DEF HandedParts
      <4>2. u[1] \in Numbers /\ u[2] \in Nat /\ u = <<u[1], u[2]>> /\ t = <<t[1], t[2]>>
        BY <3>1, <4>1, TableParts
      <4>3. CASE u[1] = t[1]
        <5>1. Viewed(u) <=> u[2] < t[2]
          BY <3>1, <4>3 DEF Viewed
        <5>2. Viewed(u)' <=> u[2] < t[2] + 1
          BY <3>1, <4>3 DEF Viewed
        <5>3. u = t <=> u[2] = t[2]
          BY <4>2, <4>3
        <5>4. t[2] \in Nat /\ u[2] \in Nat
          BY <3>1, <4>2
        <5> QED BY <5>1, <5>2, <5>3, <5>4
      <4>4. CASE u[1] # t[1]
        <5>1. views'[u[1]] = views[u[1]]
          BY <3>1, <4>2, <4>4
        <5> QED BY <4>4, <5>1 DEF Viewed
      <4> QED BY <4>3, <4>4
    <3> QED BY <1>0, <1>h, <3>6, <3>7, <3>8, Goes
  <2> QED BY <2>1, <2>2
<1>7. ASSUME NEW n \in Numbers, Retire(n) \/ DropFlushed(n) PROVE Pending' /\ Apart' /\ NoneLost'
  BY <1>2, <1>7 DEF Retire, DropFlushed
<1>8. ASSUME NEW c \in CompWorkers, EndFlush(c) \/ Merge(c) \/ EndMerge(c) \/ Nothing(c) \/ EndPeek(c)
      PROVE  Pending' /\ Apart' /\ NoneLost'
  BY <1>2, <1>8 DEF EndFlush, Merge, EndMerge, Nothing, EndPeek
<1>9. CASE UNCHANGED vars
  BY <1>2, <1>9 DEF vars
<1> QED BY <1>3, <1>4, <1>5, <1>6, <1>7, <1>8, <1>9 DEF Next, TaskWorker, CompWorker

\* and at one place of that stage.
LEMMA DistinctKept ==
  ASSUME FlushInv, FlushTypes', [Next]_vars
  PROVE  Distinct' /\ BatchOnly'
<1>0. /\ Pending /\ Apart /\ Distinct /\ BatchOnly /\ FlushTypes
      /\ bg_wait \in [CompWorkers -> Seq(Table)] /\ wait \in [CompWorkers -> Seq(Table)]
      /\ kept \in [CompWorkers -> Seq(Table)] /\ cq \in [CompWorkers -> Seq(Table)]
      /\ cst \in [CompWorkers -> {"idle", "peek", "flush", "merge"}]
  BY DEF FlushInv, FlushTypes
<1>e. IsInjective(<<>>)
  BY DEF IsInjective
<1>1. ASSUME UNCHANGED <<bg_wait, wait, cq>> PROVE Distinct'
  BY <1>0, <1>1 DEF Distinct
<1>2. ASSUME UNCHANGED <<wait, kept, cst>> PROVE BatchOnly'
  BY <1>0, <1>2 DEF BatchOnly
<1>3. ASSUME NEW n \in Numbers, AddReadOnlyTable(n) PROVE Distinct' /\ BatchOnly'
  <2> PICK t, c : t = <<n, level[n]>> /\ c = current_comp_index
    OBVIOUS
  <2>1. /\ bg_wait' = [bg_wait EXCEPT ![c] = Append(@, t)]
        /\ UNCHANGED <<wait, kept, cst, cq>>
    BY <1>3 DEF AddReadOnlyTable, AddSStable
  <2>2. c \in CompWorkers /\ level[n] \in Nat
    BY <1>0 DEF FlushTypes
  <2>3. t \in Table /\ t[1] = n /\ t[2] = level[n]
    BY <2>2 DEF Table
  <2>5. t \notin Handed
    BY <1>0, <1>3, HandedBy
  <2>6. t \notin Range(bg_wait[c])
    BY <1>0, <2>2, <2>5, ContentIs DEF Pending, Stages
  <2>7. bg_wait'[c] = Append(bg_wait[c], t) /\ bg_wait[c] \in Seq(Table) /\ IsInjective(bg_wait[c])
    BY <1>0, <2>1, <2>2 DEF Distinct
  <2>8. IsInjective(bg_wait'[c])
    BY <2>3, <2>6, <2>7, RangeAppend
  <2>9. \A d \in CompWorkers \ {c} : bg_wait'[d] = bg_wait[d]
    BY <1>0, <2>1
  <2>10. Distinct'
    BY <1>0, <2>1, <2>8, <2>9 DEF Distinct
  <2> QED BY <1>2, <2>1, <2>10
<1>4. ASSUME NEW c \in CompWorkers, Take(c) PROVE Distinct' /\ BatchOnly'
  <2>1. /\ bg_wait' = [bg_wait EXCEPT ![c] = kept[c]] /\ wait' = [wait EXCEPT ![c] = bg_wait[c]]
        /\ kept' = [kept EXCEPT ![c] = bg_wait[c]]
        /\ cst' = [cst EXCEPT ![c] = "flush"] /\ UNCHANGED cq /\ cst[c] = "idle"
    BY <1>4 DEF Take
  <2>2. kept[c] = <<>>
    BY <1>0, <2>1 DEF BatchOnly
  <2>3. bg_wait'[c] = <<>> /\ wait'[c] = bg_wait[c] /\ cst'[c] = "flush"
    BY <1>0, <2>1, <2>2
  <2>4. \A d \in CompWorkers \ {c} : /\ bg_wait'[d] = bg_wait[d] /\ wait'[d] = wait[d]
                                     /\ kept'[d] = kept[d] /\ cst'[d] = cst[d]
    BY <1>0, <2>1
  <2>5. Distinct'
    BY <1>0, <1>e, <2>1, <2>3, <2>4 DEF Distinct
  <2>6. BatchOnly'
    BY <1>0, <2>3, <2>4 DEF BatchOnly
  <2> QED BY <2>5, <2>6
<1>5. ASSUME NEW c \in CompWorkers, Flush(c) PROVE Distinct' /\ BatchOnly'
  <2>1. CASE UNCHANGED wait
    BY <1>1, <1>2, <1>5, <2>1 DEF Flush
  <2>2. CASE wait' = [wait EXCEPT ![c] = Tail(@)]
    <3>1. UNCHANGED <<bg_wait, kept, cst, cq>> /\ wait[c] # <<>> /\ cst[c] = "flush"
      BY <1>5 DEF Flush
    <3>2. /\ wait'[c] = Tail(wait[c]) /\ wait[c] \in Seq(Table) /\ IsInjective(wait[c])
          /\ \A d \in CompWorkers \ {c} : wait'[d] = wait[d]
      BY <1>0, <2>2 DEF Distinct
    <3>3. IsInjective(wait'[c])
      BY <3>1, <3>2, RangeTail
    <3>4. Distinct'
      BY <1>0, <3>1, <3>2, <3>3 DEF Distinct
    <3>5. BatchOnly'
      BY <1>0, <3>1, <3>2 DEF BatchOnly
    <3> QED BY <3>4, <3>5
  <2> QED BY <1>5, <2>1, <2>2 DEF Flush
<1>6. ASSUME NEW c \in CompWorkers, EndFlush(c) PROVE Distinct' /\ BatchOnly'
  <2>1. /\ kept' = [kept EXCEPT ![c] = <<>>] /\ cst' = [cst EXCEPT ![c] = "merge"]
        /\ UNCHANGED <<bg_wait, wait, cq>> /\ wait[c] = <<>>
    BY <1>6 DEF EndFlush
  <2>2. /\ kept'[c] = <<>>
        /\ \A d \in CompWorkers \ {c} : kept'[d] = kept[d] /\ cst'[d] = cst[d]
    BY <1>0, <2>1
  <2>3. BatchOnly'
    BY <1>0, <2>1, <2>2 DEF BatchOnly
  <2> QED BY <1>1, <2>1, <2>3
<1>7. ASSUME NEW c \in CompWorkers, EndMerge(c) \/ Nothing(c) \/ EndPeek(c) PROVE Distinct' /\ BatchOnly'
  <2>1. /\ cst[c] # "flush" /\ UNCHANGED <<bg_wait, wait, kept, cq>>
        /\ \E v : cst' = [cst EXCEPT ![c] = v]
    BY <1>7 DEF EndMerge, Nothing, EndPeek
  <2>2. \A d \in CompWorkers \ {c} : cst'[d] = cst[d]
    BY <1>0, <2>1
  <2>3. BatchOnly'
    BY <1>0, <2>1, <2>2 DEF BatchOnly
  <2> QED BY <1>1, <2>1, <2>3
<1>8. ASSUME NEW c \in CompWorkers, Complete(c) PROVE Distinct' /\ BatchOnly'
  <2>1. PICK t \in inflight[c] : cq' = [cq EXCEPT ![c] = Append(@, t)]
    BY <1>8 DEF Complete
  <2>2. UNCHANGED <<bg_wait, wait, kept, cst>>
    BY <1>8 DEF Complete
  <2>3. t \notin Range(cq[c])
    <3>1. t \in Content("inflight", c) /\ "inflight" \in Stages /\ "cq" \in Stages /\ "inflight" # "cq"
      BY ContentIs DEF Stages
    <3>2. t \notin Content("cq", c)
      BY <1>0, <3>1 DEF Apart
    <3> QED BY <3>2, ContentIs
  <2>4. /\ cq'[c] = Append(cq[c], t) /\ cq[c] \in Seq(Table) /\ IsInjective(cq[c])
        /\ \A d \in CompWorkers \ {c} : cq'[d] = cq[d]
    BY <1>0, <2>1 DEF Distinct
  <2>5. t \in Table
    BY <1>0 DEF FlushTypes
  <2>6. IsInjective(cq'[c])
    BY <2>3, <2>4, <2>5, RangeAppend
  <2>7. Distinct'
    BY <1>0, <2>2, <2>4, <2>6 DEF Distinct
  <2> QED BY <1>2, <2>2, <2>7
<1>9. ASSUME NEW c \in CompWorkers, Peek(c) PROVE Distinct' /\ BatchOnly'
  <2>1. UNCHANGED <<bg_wait, wait, kept, cst>> /\ cq[c] # <<>>
    BY <1>9 DEF Peek
  <2>2. CASE UNCHANGED cq
    BY <1>1, <1>2, <2>1, <2>2
  <2>3. CASE cq' = [cq EXCEPT ![c] = Tail(@)]
    <3>1. /\ cq'[c] = Tail(cq[c]) /\ cq[c] \in Seq(Table) /\ IsInjective(cq[c])
          /\ \A d \in CompWorkers \ {c} : cq'[d] = cq[d]
      BY <1>0, <2>3 DEF Distinct
    <3>2. IsInjective(cq'[c])
      BY <2>1, <3>1, RangeTail
    <3>3. Distinct'
      BY <1>0, <2>1, <3>1, <3>2 DEF Distinct
    <3> QED BY <1>2, <2>1, <3>3
  <2> QED BY <1>9, <2>2, <2>3 DEF Peek
<1>10. ASSUME NEW n \in Numbers, Retire(n) \/ DropFlushed(n) PROVE Distinct' /\ BatchOnly'
  BY <1>1, <1>2, <1>10 DEF Retire, DropFlushed
<1>11. ASSUME NEW c \in CompWorkers, Merge(c) PROVE Distinct' /\ BatchOnly'
  BY <1>1, <1>2, <1>11 DEF Merge
<1>12. CASE UNCHANGED vars
  BY <1>1, <1>2, <1>12 DEF vars
<1> QED
  BY <1>3, <1>4, <1>5, <1>6, <1>7, <1>8, <1>9, <1>10, <1>11, <1>12 DEF Next, TaskWorker, CompWorker

-----------------------------------------------------------------------------
(* Every table is flushed once and readable throughout.                    *)

\* Nothing has been handed over when the process starts.
LEMMA FlushInit == Init => FlushInv
<1> SUFFICES ASSUME Init PROVE FlushInv
  OBVIOUS
<1>1. FlushTypes
  <2>1. 0 \in CompWorkers
    BY TaskWorkersAssumption DEF CompWorkers
  <2>2. <<>> \in Seq(Nat) /\ <<>> \in Seq(Table)
    BY EmptySeq
  <2> QED BY <2>1, <2>2 DEF Init, FlushTypes
<1>2. \A n \in Numbers : /\ level[n] = 0 /\ ~retiring[n] /\ readonly[n] = <<>> /\ views[n] = <<>>
                         /\ remove_N[n] = 0 /\ preRemove_N[n] = 0
  BY DEF Init
<1>3. \A c \in CompWorkers : /\ bg_wait[c] = <<>> /\ wait[c] = <<>> /\ kept[c] = <<>> /\ cq[c] = <<>>
                             /\ inflight[c] = {}
  BY DEF Init
<1>4. \A n \in Numbers : Sealed(n) = 0
  BY <1>2 DEF Sealed
<1>5. Len(<<>>) = 0 /\ DOMAIN <<>> = {} /\ Range(<<>>) = {} /\ IsInjective(<<>>)
  BY DEF Range, IsInjective
<1>6. \A n \in Numbers : Levels(n)
  BY <1>2, <1>4, <1>5 DEF Levels
<1>7. \A q \in Stages, c \in CompWorkers : Content(q, c) = {}
  BY <1>3, <1>5, ContentIs DEF Stages
<1>8. \A t : t \notin Handed
  BY <1>1, <1>4, HandedIs, TableParts DEF HandedParts
<1>9. Pending /\ Apart /\ NoneLost
  BY <1>7, <1>8 DEF Pending, Apart, NoneLost
<1>10. Distinct /\ BatchOnly
  BY <1>3, <1>5 DEF Distinct, BatchOnly
<1> QED BY <1>1, <1>6, <1>9, <1>10 DEF FlushInv

\* Every step keeps FlushInv: a table moves from one stage to the next and is in no other.
LEMMA FlushStep == FlushInv /\ [Next]_vars => FlushInv'
<1> SUFFICES ASSUME FlushInv, [Next]_vars PROVE FlushInv'
  OBVIOUS
<1>1. FlushTypes'
  BY TypesKept DEF FlushInv
<1>2. (\A n \in Numbers : Levels(n)')
  BY <1>1, LevelsKept
<1>3. Pending' /\ Apart' /\ NoneLost'
  BY <1>1, StagesKept
<1>4. Distinct' /\ BatchOnly'
  BY <1>1, DistinctKept
<1> QED BY <1>1, <1>2, <1>3, <1>4 DEF FlushInv

\* The invariant holds in every reachable state.
LEMMA FlushInvCorrect == Spec => []FlushInv
BY FlushInit, FlushStep, PTL DEF Spec

\* The rest of TypeOK: what ended the process, and the scan for level merges.
ScanTypes ==
  /\ status \in Ends
  /\ isCompaction \in [Numbers -> BOOLEAN]
  /\ j \in [CompWorkers -> 0 .. memtable_N]

\* Every step keeps the rest of the types.
LEMMA ScanTypesKept == ScanTypes /\ [Next]_vars => ScanTypes'
<1> SUFFICES ASSUME ScanTypes, [Next]_vars PROVE ScanTypes'
  OBVIOUS
<1> USE DEF ScanTypes, Ends
<1>1. ASSUME NEW n \in Numbers, TaskWorker(n) PROVE ScanTypes'
  BY <1>1 DEF TaskWorker, AddReadOnlyTable, Retire, DropFlushed, mergeVars
<1>2. ASSUME NEW c \in CompWorkers, Take(c) \/ Flush(c) \/ EndMerge(c) \/ Nothing(c) \/ EndPeek(c) \/ Complete(c)
      PROVE  ScanTypes'
  BY <1>2 DEF Take, Flush, SSTableInit, EndMerge, Nothing, EndPeek, Complete, mergeVars
<1>3. ASSUME NEW c \in CompWorkers, Peek(c) PROVE ScanTypes'
  BY <1>3, ViewAssumption DEF Peek, Load, InitMmap, ViewInit, mergeVars
<1>4. ASSUME NEW c \in CompWorkers, EndFlush(c) PROVE ScanTypes'
  <2>1. 0 \in 0 .. memtable_N
    BY MemtableNAssumption
  <2> QED BY <1>4, <2>1 DEF EndFlush
<1>5. ASSUME NEW c \in CompWorkers, Merge(c) PROVE ScanTypes'
  <2>1. /\ status' \in Ends
        /\ isCompaction' = isCompaction \/ isCompaction' = [isCompaction EXCEPT ![j[c]] = TRUE]
        /\ j' = [j EXCEPT ![c] = @ + 1] /\ j[c] < memtable_N /\ j[c] \in 0 .. memtable_N
    BY <1>5 DEF Merge
  <2>2. j' \in [CompWorkers -> 0 .. memtable_N]
    <3>1. j[c] + 1 \in 0 .. memtable_N
      BY <2>1, MemtableNAssumption
    <3> QED BY <2>1, <3>1
  <2>3. isCompaction' \in [Numbers -> BOOLEAN]
    BY <2>1
  <2> QED BY <2>1, <2>2, <2>3
<1>6. CASE UNCHANGED vars
  BY <1>6 DEF vars, mergeVars
<1> QED BY <1>1, <1>2, <1>3, <1>4, <1>5, <1>6 DEF Next, CompWorker

\* The variables of TaskWorkers, Compactor, CompWorkers and managers stay well typed in
\* every execution.
THEOREM TypeCorrect == Spec => []TypeOK
<1>1. Init => ScanTypes
  <2>1. 0 \in 0 .. memtable_N
    BY MemtableNAssumption
  <2> QED BY <2>1 DEF Init, ScanTypes, Ends
<1>2. FlushInv /\ ScanTypes => TypeOK
  BY DEF FlushInv, FlushTypes, ScanTypes, TypeOK, CompData, IOUring, ConSumptionQueue,
         SSTableManager, MemTable_view, MemTableViewManager
<1> QED BY <1>1, <1>2, ScanTypesKept, FlushInvCorrect, PTL DEF Spec

\* Members of a product with one kind and one owner.
LEMMA TripleIn ==
  ASSUME NEW k, NEW c, NEW A, NEW p
  PROVE  p \in {k} \X {c} \X A <=> \E i \in A : p = <<k, c, i>>
<1>1. ASSUME p \in {k} \X {c} \X A PROVE \E i \in A : p = <<k, c, i>>
  <2>1. p = <<p[1], p[2], p[3]>> /\ p[1] = k /\ p[2] = c /\ p[3] \in A
    BY <1>1
  <2> QED BY <2>1
<1>2. ASSUME NEW i \in A, p = <<k, c, i>> PROVE p \in {k} \X {c} \X A
  BY <1>2
<1> QED BY <1>1, <1>2

\* What Places is, place by place.
LEMMA PlacesAre ==
  ASSUME NEW t, NEW p
  PROVE  p \in Places(t) <=>
           \/ \E c \in CompWorkers : \E i \in DOMAIN bg_wait[c] : bg_wait[c][i] = t /\ p = <<"bg_wait", c, i>>
           \/ \E c \in CompWorkers : \E i \in DOMAIN wait[c] : wait[c][i] = t /\ p = <<"wait", c, i>>
           \/ \E c \in CompWorkers : t \in inflight[c] /\ p = <<"inflight", c, 0>>
           \/ \E c \in CompWorkers : \E i \in DOMAIN cq[c] : cq[c][i] = t /\ p = <<"cq", c, i>>
           \/ \E i \in DOMAIN views[t[1]] : views[t[1]][i] = t[2] /\ p = <<"views", t[1], i>>
<1> DEFINE In(s, e) == {i \in DOMAIN s : s[i] = e}
           B(c) == {"bg_wait"} \X {c} \X In(bg_wait[c], t)
           W(c) == {"wait"} \X {c} \X In(wait[c], t)
           F(c) == {"inflight"} \X {c} \X (IF t \in inflight[c] THEN {0} ELSE {})
           Q(c) == {"cq"} \X {c} \X In(cq[c], t)
           V == {"views"} \X {t[1]} \X In(views[t[1]], t[2])
           Of(c) == B(c) \cup W(c) \cup F(c) \cup Q(c)
<1>1. Places(t) = (UNION {Of(c) : c \in CompWorkers}) \cup V
  BY DEF Places
<1>2. \A c : p \in B(c) <=> \E i \in DOMAIN bg_wait[c] : bg_wait[c][i] = t /\ p = <<"bg_wait", c, i>>
  <2>1. \A c : p \in B(c) <=> \E i \in In(bg_wait[c], t) : p = <<"bg_wait", c, i>>
    BY TripleIn
  <2> QED BY <2>1
<1>3. \A c : p \in W(c) <=> \E i \in DOMAIN wait[c] : wait[c][i] = t /\ p = <<"wait", c, i>>
  <2>1. \A c : p \in W(c) <=> \E i \in In(wait[c], t) : p = <<"wait", c, i>>
    BY TripleIn
  <2> QED BY <2>1
<1>4. \A c : p \in Q(c) <=> \E i \in DOMAIN cq[c] : cq[c][i] = t /\ p = <<"cq", c, i>>
  <2>1. \A c : p \in Q(c) <=> \E i \in In(cq[c], t) : p = <<"cq", c, i>>
    BY TripleIn
  <2> QED BY <2>1
<1>5. p \in V <=> \E i \in DOMAIN views[t[1]] : views[t[1]][i] = t[2] /\ p = <<"views", t[1], i>>
  <2>1. p \in V <=> \E i \in In(views[t[1]], t[2]) : p = <<"views", t[1], i>>
    BY TripleIn
  <2> QED BY <2>1
<1>6. \A c : p \in F(c) <=> t \in inflight[c] /\ p = <<"inflight", c, 0>>
  BY TripleIn
<1>7. p \in Places(t) <=> (\E c \in CompWorkers : p \in B(c) \/ p \in W(c) \/ p \in F(c) \/ p \in Q(c)) \/ p \in V
  <2>1. p \in Places(t) <=> p \in UNION {Of(c) : c \in CompWorkers} \/ p \in V
    <3> HIDE DEF Of, V
    <3> QED BY <1>1
  <2>2. p \in UNION {Of(c) : c \in CompWorkers} <=> \E c \in CompWorkers : p \in Of(c)
    <3> HIDE DEF Of
    <3> QED OBVIOUS
  <2>3. \A c : p \in Of(c) <=> p \in B(c) \/ p \in W(c) \/ p \in F(c) \/ p \in Q(c)
    <3> HIDE DEF B, W, F, Q
    <3> QED OBVIOUS
  <2> HIDE DEF Of, B, W, F, Q, V
  <2> QED BY <2>1, <2>2, <2>3
<1> HIDE DEF B, W, F, Q, V, Of
<1>8. ASSUME p \in Places(t)
      PROVE  \/ \E c \in CompWorkers : \E i \in DOMAIN bg_wait[c] : bg_wait[c][i] = t /\ p = <<"bg_wait", c, i>>
             \/ \E c \in CompWorkers : \E i \in DOMAIN wait[c] : wait[c][i] = t /\ p = <<"wait", c, i>>
             \/ \E c \in CompWorkers : t \in inflight[c] /\ p = <<"inflight", c, 0>>
             \/ \E c \in CompWorkers : \E i \in DOMAIN cq[c] : cq[c][i] = t /\ p = <<"cq", c, i>>
             \/ \E i \in DOMAIN views[t[1]] : views[t[1]][i] = t[2] /\ p = <<"views", t[1], i>>
  <2>1. CASE p \in V
    BY <1>5, <2>1
  <2>2. ASSUME NEW c \in CompWorkers, p \in B(c) \/ p \in W(c) \/ p \in F(c) \/ p \in Q(c)
        PROVE  \/ \E i \in DOMAIN bg_wait[c] : bg_wait[c][i] = t /\ p = <<"bg_wait", c, i>>
               \/ \E i \in DOMAIN wait[c] : wait[c][i] = t /\ p = <<"wait", c, i>>
               \/ t \in inflight[c] /\ p = <<"inflight", c, 0>>
               \/ \E i \in DOMAIN cq[c] : cq[c][i] = t /\ p = <<"cq", c, i>>
    BY <1>2, <1>3, <1>4, <1>6, <2>2
  <2> QED BY <1>7, <1>8, <2>1, <2>2, Zenon
<1>9. ASSUME NEW c \in CompWorkers, NEW i \in DOMAIN bg_wait[c], bg_wait[c][i] = t, p = <<"bg_wait", c, i>>
      PROVE  p \in Places(t)
  BY <1>2, <1>7, <1>9
<1>10. ASSUME NEW c \in CompWorkers, NEW i \in DOMAIN wait[c], wait[c][i] = t, p = <<"wait", c, i>>
       PROVE  p \in Places(t)
  BY <1>3, <1>7, <1>10
<1>11. ASSUME NEW c \in CompWorkers, t \in inflight[c], p = <<"inflight", c, 0>> PROVE p \in Places(t)
  BY <1>6, <1>7, <1>11
<1>12. ASSUME NEW c \in CompWorkers, NEW i \in DOMAIN cq[c], cq[c][i] = t, p = <<"cq", c, i>>
       PROVE  p \in Places(t)
  BY <1>4, <1>7, <1>12
<1>13. ASSUME NEW i \in DOMAIN views[t[1]], views[t[1]][i] = t[2], p = <<"views", t[1], i>> PROVE p \in Places(t)
  BY <1>5, <1>7, <1>13
<1> QED BY <1>8, <1>9, <1>10, <1>11, <1>12, <1>13, Zenon

\* A table with a view is in it once.
LEMMA ViewPlace ==
  ASSUME FlushTypes, NEW n \in Numbers, Levels(n), NEW l \in Nat
  PROVE  /\ DOMAIN views[n] = 1 .. Len(views[n]) /\ Len(views[n]) \in Nat
         /\ \A i \in DOMAIN views[n] : views[n][i] = l <=> i = l + 1
         /\ l < Len(views[n]) => l + 1 \in DOMAIN views[n] /\ views[n][l + 1] = l
         /\ \A i \in DOMAIN views[n] : views[n][i] = l => l < Len(views[n])
<1>1. views[n] \in Seq(Nat)
  BY DEF FlushTypes
<1>2. DOMAIN views[n] = 1 .. Len(views[n]) /\ Len(views[n]) \in Nat
  BY <1>1, LenProperties
<1>3. \A i \in DOMAIN views[n] : views[n][i] = i - 1
  BY DEF Levels
<1>4. \A i \in DOMAIN views[n] : views[n][i] = l <=> i = l + 1
  BY <1>2, <1>3
<1>5. l < Len(views[n]) => l + 1 \in DOMAIN views[n] /\ views[n][l + 1] = l
  BY <1>2, <1>3
<1>6. \A i \in DOMAIN views[n] : views[n][i] = l => l < Len(views[n])
  BY <1>2, <1>3
<1> QED BY <1>2, <1>4, <1>5, <1>6

\* What is held at one place, or has its view, is not at two places and not lost.
LEMMA OncePlaced == FlushInv => FlushedOnce
<1> SUFFICES ASSUME FlushInv, NEW t \in Handed PROVE \E p \in Places(t) : Places(t) = {p}
  BY DEF FlushedOnce
<1>0. FlushTypes /\ Pending /\ Apart /\ Distinct /\ NoneLost /\ \A n \in Numbers : Levels(n)
  BY DEF FlushInv
<1>1. t \in Table
  BY <1>0, HandedIs DEF HandedParts
<1>2. t[1] \in Numbers /\ t[2] \in Nat
  BY <1>1, TableParts
<1>3. Levels(t[1])
  BY <1>0, <1>2
<1>4. /\ \A i \in DOMAIN views[t[1]] : views[t[1]][i] = t[2] <=> i = t[2] + 1
      /\ Viewed(t) => t[2] + 1 \in DOMAIN views[t[1]] /\ views[t[1]][t[2] + 1] = t[2]
      /\ \A i \in DOMAIN views[t[1]] : views[t[1]][i] = t[2] => Viewed(t)
  BY <1>0, <1>2, <1>3, ViewPlace DEF Viewed
<1> SUFFICES \E p \in Places(t) : \A o \in Places(t) : o = p
  OBVIOUS
<1>5. \A c \in CompWorkers :
        /\ (\E i \in DOMAIN bg_wait[c] : bg_wait[c][i] = t) <=> t \in Content("bg_wait", c)
        /\ (\E i \in DOMAIN wait[c] : wait[c][i] = t) <=> t \in Content("wait", c)
        /\ t \in inflight[c] <=> t \in Content("inflight", c)
        /\ (\E i \in DOMAIN cq[c] : cq[c][i] = t) <=> t \in Content("cq", c)
  BY DEF Content, Range
<1>6. CASE Viewed(t)
  <2>1. \A q \in Stages, c \in CompWorkers : t \notin Content(q, c)
    BY <1>0, <1>6 DEF Pending
  <2>2. <<"views", t[1], t[2] + 1>> \in Places(t)
    BY <1>4, <1>6, PlacesAre
  <2>3. ASSUME NEW o \in Places(t) PROVE o = <<"views", t[1], t[2] + 1>>
    <3>1. \E i \in DOMAIN views[t[1]] : views[t[1]][i] = t[2] /\ o = <<"views", t[1], i>>
      BY <1>5, <2>1, PlacesAre DEF Stages
    <3> QED BY <1>4, <3>1
  <2> QED BY <2>2, <2>3
<1>7. CASE ~Viewed(t)
  <2>1. PICK q \in Stages, c \in CompWorkers : t \in Content(q, c)
    BY <1>0, <1>7 DEF NoneLost
  <2>2. \A r \in Stages, d \in CompWorkers : t \in Content(r, d) => r = q /\ d = c
    BY <1>0, <2>1 DEF Apart
  <2>3. ~ \E i \in DOMAIN views[t[1]] : views[t[1]][i] = t[2]
    BY <1>4, <1>7
  <2>4. CASE q = "bg_wait"
    <3>1. PICK i \in DOMAIN bg_wait[c] : bg_wait[c][i] = t
      BY <1>5, <2>1, <2>4
    <3>2. <<"bg_wait", c, i>> \in Places(t)
      BY <3>1, PlacesAre
    <3>3. ASSUME NEW o \in Places(t) PROVE o = <<"bg_wait", c, i>>
      <4>1. \E k \in DOMAIN bg_wait[c] : bg_wait[c][k] = t /\ o = <<"bg_wait", c, k>>
        BY <1>5, <2>2, <2>3, <2>4, PlacesAre DEF Stages
      <4> QED BY <1>0, <3>1, <4>1 DEF Distinct, IsInjective
    <3> QED BY <3>2, <3>3
  <2>5. CASE q = "wait"
    <3>1. PICK i \in DOMAIN wait[c] : wait[c][i] = t
      BY <1>5, <2>1, <2>5
    <3>2. <<"wait", c, i>> \in Places(t)
      BY <3>1, PlacesAre
    <3>3. ASSUME NEW o \in Places(t) PROVE o = <<"wait", c, i>>
      <4>1. \E k \in DOMAIN wait[c] : wait[c][k] = t /\ o = <<"wait", c, k>>
        BY <1>5, <2>2, <2>3, <2>5, PlacesAre DEF Stages
      <4> QED BY <1>0, <3>1, <4>1 DEF Distinct, IsInjective
    <3> QED BY <3>2, <3>3
  <2>6. CASE q = "inflight"
    <3>1. <<"inflight", c, 0>> \in Places(t)
      BY <1>5, <2>1, <2>6, PlacesAre
    <3>2. ASSUME NEW o \in Places(t) PROVE o = <<"inflight", c, 0>>
      BY <1>5, <2>2, <2>3, <2>6, PlacesAre DEF Stages
    <3> QED BY <3>1, <3>2
  <2>7. CASE q = "cq"
    <3>1. PICK i \in DOMAIN cq[c] : cq[c][i] = t
      BY <1>5, <2>1, <2>7
    <3>2. <<"cq", c, i>> \in Places(t)
      BY <3>1, PlacesAre
    <3>3. ASSUME NEW o \in Places(t) PROVE o = <<"cq", c, i>>
      <4>1. \E k \in DOMAIN cq[c] : cq[c][k] = t /\ o = <<"cq", c, k>>
        BY <1>5, <2>2, <2>3, <2>7, PlacesAre DEF Stages
      <4> QED BY <1>0, <3>1, <4>1 DEF Distinct, IsInjective
    <3> QED BY <3>2, <3>3
  <2> QED BY <2>4, <2>5, <2>6, <2>7 DEF Stages
<1> QED BY <1>6, <1>7

\* A table given to the compactor is in exactly one place from then on: in a vector, a
\* ring or a completion queue of one CompWorker, once, or in its view.  No swap of the two
\* vectors, no clear and no completion loses it or flushes it again, whatever the numbers
\* of memtables and CompWorkers.
THEOREM OnceCorrect == Spec => []FlushedOnce
BY FlushInvCorrect, OncePlaced, PTL

\* The read-only vector and the views leave out no level between them.
LEMMA ReadableAlways == FlushInv => AlwaysReadable
<1> SUFFICES ASSUME FlushInv, NEW t \in Handed
             PROVE  \/ retiring[t[1]] /\ t[2] = level[t[1]]
                    \/ t[2] \in Range(readonly[t[1]])
                    \/ t[2] \in Range(views[t[1]])
  BY DEF AlwaysReadable
<1>0. FlushTypes /\ \A n \in Numbers : Levels(n)
  BY DEF FlushInv
<1>1. t \in Table /\ t[2] < Sealed(t[1])
  BY <1>0, HandedIs DEF HandedParts
<1>2. PICK n, l : n = t[1] /\ l = t[2]
  OBVIOUS
<1>3. n \in Numbers /\ l \in Nat /\ l < Sealed(n)
  BY <1>1, <1>2, TableParts
<1>4. Levels(n)
  BY <1>0, <1>3
<1>5. CASE l < Len(views[n])
  <2>1. l + 1 \in DOMAIN views[n] /\ views[n][l + 1] = l
    BY <1>0, <1>3, <1>4, <1>5, ViewPlace
  <2> QED BY <1>2, <2>1 DEF Range
<1>6. CASE ~(l < Len(views[n]))
  <2>1. /\ preRemove_N[n] \in Nat /\ remove_N[n] \in Nat /\ level[n] \in Nat
        /\ retiring[n] \in BOOLEAN /\ readonly[n] \in Seq(Nat)
    BY <1>0, <1>3 DEF FlushTypes
  <2>2. DOMAIN readonly[n] = 1 .. Len(readonly[n]) /\ Len(readonly[n]) \in Nat
    BY <2>1, LenProperties
  <2>3. /\ preRemove_N[n] <= remove_N[n] /\ remove_N[n] = Len(views[n])
        /\ Len(readonly[n]) = level[n] - preRemove_N[n]
        /\ \A i \in DOMAIN readonly[n] : readonly[n][i] = preRemove_N[n] + i - 1
    BY <1>4 DEF Levels
  <2>4. CASE l < level[n]
    <3> PICK i : i = l - preRemove_N[n] + 1
      OBVIOUS
    <3>1. i \in DOMAIN readonly[n]
      BY <1>3, <1>6, <2>1, <2>2, <2>3, <2>4
    <3>2. readonly[n][i] = l
      BY <1>3, <2>1, <2>3, <3>1
    <3> QED BY <1>2, <3>1, <3>2 DEF Range
  <2>5. CASE ~(l < level[n])
    <3>1. retiring[n] /\ l = level[n]
      BY <1>3, <2>1, <2>5 DEF Sealed
    <3> QED BY <1>2, <3>1
  <2> QED BY <2>4, <2>5
<1> QED BY <1>5, <1>6

\* A table given to the compactor answers reads at all times: as the memtable itself, from
\* the read-only vector or from its view.  remove_N_, which a CompWorker raises for a view
\* pushed before, never lets a TaskWorker drop a table too early, for any number of both.
THEOREM ReadableCorrect == Spec => []AlwaysReadable
BY FlushInvCorrect, ReadableAlways, PTL

-----------------------------------------------------------------------------
(* The promise of TableLifecycle.                                          *)

SealedOf == [n \in Numbers |-> Sealed(n)]
ViewsOf == [n \in Numbers |-> Len(views[n])]
DroppedOf == [n \in Numbers |-> level[n] - Len(readonly[n])]

\* What has left memory is what TaskWorker counts in preRemove_N.
DroppedCounted == DroppedOf = [n \in Numbers |-> preRemove_N[n]]

\* What has left memory, in TaskWorker's count.
LEMMA DroppedIs == FlushInv => DroppedCounted
<1> SUFFICES ASSUME FlushInv PROVE DroppedOf = [n \in Numbers |-> preRemove_N[n]]
  BY DEF DroppedCounted
<1>1. ASSUME NEW n \in Numbers PROVE level[n] - Len(readonly[n]) = preRemove_N[n]
  <2>1. level[n] \in Nat /\ preRemove_N[n] \in Nat
    BY DEF FlushInv, FlushTypes
  <2>2. Len(readonly[n]) = level[n] - preRemove_N[n]
    BY DEF FlushInv, Levels
  <2> QED BY <2>1, <2>2
<1> QED BY <1>1 DEF DroppedOf

\* The same after a step.
LEMMA DroppedIsNext == FlushInv' => DroppedCounted'
BY DroppedIs, PTL

\* Every step is a step of TableLifecycle or leaves its variables alone.
LEMMA LifeStep ==
  ASSUME FlushInv, FlushInv', [Next]_vars
  PROVE  [Life!Next]_(Life!lifeVars)
<1>0. FlushTypes /\ Pending /\ \A n \in Numbers : Levels(n)
  BY DEF FlushInv
<1>d. /\ DroppedOf = [n \in Numbers |-> preRemove_N[n]]
      /\ DroppedOf' = [n \in Numbers |-> preRemove_N'[n]]
  BY DroppedIs, DroppedIsNext DEF DroppedCounted
<1>1. ASSUME UNCHANGED <<SealedOf, ViewsOf, DroppedOf>> PROVE [Life!Next]_(Life!lifeVars)
  BY <1>1 DEF Life!lifeVars, SealedOf, ViewsOf, DroppedOf
<1>2. ASSUME UNCHANGED views PROVE UNCHANGED ViewsOf
  BY <1>2 DEF ViewsOf
<1>3. ASSUME UNCHANGED preRemove_N PROVE UNCHANGED DroppedOf
  BY <1>d, <1>3
<1>4. ASSUME ~\E n \in Numbers : AddReadOnlyTable(n) PROVE UNCHANGED SealedOf
  <2>1. \A m \in Numbers : Sealed(m)' = Sealed(m)
    BY <1>0, <1>4, SealedSame
  <2> QED BY <2>1 DEF SealedOf
<1>5. ASSUME NEW n \in Numbers, AddReadOnlyTable(n) PROVE Life!Seal(n)
  <2>1. Sealed(n)' = Sealed(n) + 1 /\ \A m \in Numbers \ {n} : Sealed(m)' = Sealed(m)
    BY <1>0, <1>5, SealedBy
  <2>2. SealedOf' = [SealedOf EXCEPT ![n] = @ + 1]
    BY <2>1 DEF SealedOf
  <2>3. UNCHANGED <<ViewsOf, DroppedOf>>
    BY <1>2, <1>3, <1>5 DEF AddReadOnlyTable
  <2> QED BY <2>2, <2>3 DEF Life!Seal, SealedOf, ViewsOf, DroppedOf
<1>6. ASSUME NEW n \in Numbers, DropFlushed(n), UNCHANGED SealedOf PROVE Life!Drop(n)
  <2>1. /\ remove_N[n] > preRemove_N[n] /\ preRemove_N' = [preRemove_N EXCEPT ![n] = remove_N[n]]
        /\ UNCHANGED views
    BY <1>6 DEF DropFlushed
  <2>2. preRemove_N \in [Numbers -> Nat] /\ preRemove_N[n] \in Nat /\ remove_N[n] \in Nat
    BY <1>0 DEF FlushTypes
  <2>3. remove_N[n] = Len(views[n])
    BY <1>0 DEF Levels
  <2> PICK k : k = remove_N[n] - preRemove_N[n]
    OBVIOUS
  <2>4. ViewsOf[n] = remove_N[n] /\ DroppedOf[n] = preRemove_N[n]
    BY <1>d, <2>3 DEF ViewsOf
  <2>5. k \in 1 .. (ViewsOf[n] - DroppedOf[n])
    BY <2>1, <2>2, <2>4
  <2>6. preRemove_N'[n] = preRemove_N[n] + k /\ \A m \in Numbers \ {n} : preRemove_N'[m] = preRemove_N[m]
    BY <2>1, <2>2
  <2>7. DroppedOf' = [DroppedOf EXCEPT ![n] = @ + k]
    BY <1>d, <2>6
  <2>8. UNCHANGED <<SealedOf, ViewsOf>>
    BY <1>2, <1>6, <2>1
  <2> QED BY <2>5, <2>7, <2>8 DEF Life!Drop, SealedOf, ViewsOf, DroppedOf
<1>7. ASSUME NEW c \in CompWorkers, Peek(c), status' = "up", UNCHANGED SealedOf
      PROVE  \E n \in Numbers : Life!Publish(n)
  <2> PICK t : t = Head(cq[c])
    OBVIOUS
  <2>1. /\ t \in Table /\ t[1] \in Numbers /\ t[2] = Len(views[t[1]])
        /\ Len(views'[t[1]]) = Len(views[t[1]]) + 1 /\ Len(views[t[1]]) \in Nat
        /\ \A m \in Numbers \ {t[1]} : views'[m] = views[m]
    BY <1>0, <1>7, PeekFacts
  <2>2. t \in Handed
    <3>1. cq[c] \in Seq(Table) /\ cq[c] # <<>>
      BY <1>0, <1>7 DEF FlushTypes, Peek
    <3>2. t \in Content("cq", c)
      BY <3>1, RangeTail DEF Content
    <3> QED BY <1>0, <3>2 DEF Pending, Stages
  <2>3. t[2] < Sealed(t[1])
    BY <1>0, <2>2, HandedIs DEF HandedParts
  <2> PICK n : n = t[1]
    OBVIOUS
  <2>4. n \in Numbers /\ ViewsOf[n] < SealedOf[n]
    BY <2>1, <2>3 DEF ViewsOf, SealedOf
  <2>5. ViewsOf' = [ViewsOf EXCEPT ![n] = @ + 1]
    BY <2>1 DEF ViewsOf
  <2>6. UNCHANGED <<SealedOf, DroppedOf>>
    BY <1>3, <1>7 DEF Peek, taskVars
  <2>7. Life!Publish(n)
    BY <2>4, <2>5, <2>6 DEF Life!Publish, SealedOf, ViewsOf, DroppedOf
  <2> QED BY <2>4, <2>7
<1>8. ASSUME NEW c \in CompWorkers, Peek(c), status' # "up" PROVE UNCHANGED <<views, preRemove_N>>
  BY <1>8 DEF Peek, taskVars
<1>9. ASSUME NEW c \in CompWorkers,
             Take(c) \/ Flush(c) \/ EndFlush(c) \/ Merge(c) \/ EndMerge(c) \/ Nothing(c) \/ EndPeek(c) \/ Complete(c)
      PROVE  UNCHANGED <<views, preRemove_N>>
  BY <1>9 DEF Take, Flush, EndFlush, Merge, EndMerge, Nothing, EndPeek, Complete, taskVars
<1>10. ASSUME NEW n \in Numbers, Retire(n) PROVE UNCHANGED <<views, preRemove_N>>
  BY <1>10 DEF Retire
<1>11. ASSUME UNCHANGED vars PROVE UNCHANGED <<views, preRemove_N>>
  BY <1>11 DEF vars, taskVars
<1>12. CASE \E n \in Numbers : AddReadOnlyTable(n)
  BY <1>5, <1>12 DEF Life!Next
<1>13. CASE ~\E n \in Numbers : AddReadOnlyTable(n)
  <2>1. UNCHANGED SealedOf
    BY <1>4, <1>13
  <2>2. ASSUME UNCHANGED <<views, preRemove_N>> PROVE [Life!Next]_(Life!lifeVars)
    BY <1>1, <1>2, <1>3, <2>1, <2>2
  <2>3. ASSUME NEW n \in Numbers, DropFlushed(n) PROVE [Life!Next]_(Life!lifeVars)
    BY <1>6, <2>1, <2>3 DEF Life!Next
  <2>4. ASSUME NEW c \in CompWorkers, Peek(c) PROVE [Life!Next]_(Life!lifeVars)
    BY <1>7, <1>8, <2>1, <2>2, <2>4 DEF Life!Next
  <2> QED
    BY <1>9, <1>10, <1>11, <1>13, <2>2, <2>3, <2>4 DEF Next, TaskWorker, CompWorker
<1> QED BY <1>12, <1>13

\* For any numbers of memtables and CompWorkers the threads, vectors, rings and counters
\* implement TableLifecycle: the tables of a number become readable from disk in the order
\* they were sealed and leave memory from the oldest on, none before its view is readable.
THEOREM LifecycleRefined == Spec => KeepsTableLifecycle
<1>1. Init => Life!Init
  <2> SUFFICES ASSUME Init PROVE Life!Init
    OBVIOUS
  <2>1. Len(<<>>) = 0
    BY EmptySeq
  <2>2. \A n \in Numbers : /\ level[n] = 0 /\ ~retiring[n] /\ readonly[n] = <<>> /\ views[n] = <<>>
    BY DEF Init
  <2>3. \A n \in Numbers : Sealed(n) = 0 /\ Len(views[n]) = 0 /\ level[n] - Len(readonly[n]) = 0
    BY <2>1, <2>2 DEF Sealed
  <2> QED BY <2>3 DEF Life!Init
<1>2. FlushInv /\ FlushInv' /\ [Next]_vars => [Life!Next]_(Life!lifeVars)
  BY LifeStep
<1> QED BY <1>1, <1>2, FlushInvCorrect, PTL DEF Spec, KeepsTableLifecycle, Life!Spec

-----------------------------------------------------------------------------
(* Level order with one CompWorker.                                        *)

InLevelOrder(s) == \A a, b \in DOMAIN s : a < b /\ s[a][1] = s[b][1] => s[a][2] < s[b][2]

Unserialised == Range(wait[0]) \cup Range(bg_wait[0])

\* The two vectors have each number's tables in level order, the older ones in the one
\* being serialised,
Ordered ==
  /\ InLevelOrder(wait[0]) /\ InLevelOrder(bg_wait[0])
  /\ \A a \in Range(wait[0]), b \in Range(bg_wait[0]) : a[1] = b[1] => a[2] < b[2]

\* and have just the tables of levels without an SSTable.
Counted ==
  /\ \A n \in Numbers : sstables[n] <= Sealed(n)
  /\ \A t \in Handed : t \in Unserialised <=> t[2] >= sstables[t[1]]

\* A process that ended because a file could not be opened has the slot and not the write.
OrderInv == status # "sstable_vec" /\ Ordered /\ (status # "open" => Counted)

\* push_back of a newer level keeps a vector in level order.
LEMMA OrderAppend ==
  ASSUME NEW s \in Seq(Table), NEW e \in Table, InLevelOrder(s),
         \A a \in Range(s) : a[1] = e[1] => a[2] < e[2]
  PROVE  InLevelOrder(Append(s, e))
<1> PICK c : c = Append(s, e)
  OBVIOUS
<1>1. /\ c \in Seq(Table) /\ Len(c) = Len(s) + 1 /\ Len(s) \in Nat
      /\ \A h \in 1 .. Len(s) : c[h] = s[h]
      /\ c[Len(s) + 1] = e
      /\ DOMAIN s = 1 .. Len(s)
  BY AppendProperties, LenProperties
<1>2. DOMAIN c = 1 .. Len(s) + 1
  BY <1>1, LenProperties
<1> SUFFICES ASSUME NEW a \in DOMAIN c, NEW b \in DOMAIN c, a < b, c[a][1] = c[b][1]
             PROVE  c[a][2] < c[b][2]
  BY DEF InLevelOrder
<1>3. a \in DOMAIN s /\ c[a] = s[a]
  BY <1>1, <1>2
<1>4. CASE b \in DOMAIN s
  <2>1. c[b] = s[b]
    BY <1>1, <1>4
  <2> QED BY <1>3, <1>4, <2>1 DEF InLevelOrder
<1>5. CASE b = Len(s) + 1
  <2>1. c[b] = e /\ s[a] \in Range(s)
    BY <1>1, <1>3, <1>5 DEF Range
  <2> QED BY <1>3, <2>1
<1> QED BY <1>1, <1>2, <1>4, <1>5

\* The first table of a vector in level order is the oldest of its number.
LEMMA OrderTail ==
  ASSUME NEW s \in Seq(Table), s # <<>>, InLevelOrder(s)
  PROVE  /\ InLevelOrder(Tail(s))
         /\ \A u \in Range(s) : u = Head(s) \/ (u[1] = Head(s)[1] => Head(s)[2] < u[2])
<1> PICK c : c = Tail(s)
  OBVIOUS
<1>1. /\ c \in Seq(Table) /\ Len(c) = Len(s) - 1 /\ Head(s) = s[1]
      /\ \A h \in 1 .. Len(c) : c[h] = s[h + 1]
      /\ Len(s) \in Nat \ {0} /\ DOMAIN s = 1 .. Len(s)
  BY HeadTailProperties, EmptySeq, LenProperties
<1>2. DOMAIN c = 1 .. Len(c)
  BY <1>1, LenProperties
<1>3. \A h \in DOMAIN c : h + 1 \in DOMAIN s /\ c[h] = s[h + 1] /\ h \in Nat
  BY <1>1, <1>2
<1>4. InLevelOrder(c)
  <2> SUFFICES ASSUME NEW a \in DOMAIN c, NEW b \in DOMAIN c, a < b, c[a][1] = c[b][1]
               PROVE  c[a][2] < c[b][2]
    BY DEF InLevelOrder
  <2>1. a + 1 < b + 1
    BY <1>3
  <2> QED BY <1>3, <2>1 DEF InLevelOrder
<1>5. ASSUME NEW u \in Range(s), u # Head(s), u[1] = Head(s)[1] PROVE Head(s)[2] < u[2]
  <2>1. PICK b \in DOMAIN s : s[b] = u
    BY DEF Range
  <2>2. 1 \in DOMAIN s /\ 1 < b
    BY <1>1, <1>5, <2>1
  <2> QED BY <1>1, <1>5, <2>1, <2>2 DEF InLevelOrder
<1> QED BY <1>4, <1>5

\* A step that leaves the vectors and the SSTables alone and seals no table.
LEMMA OrderSame ==
  ASSUME OrderInv, status' # "sstable_vec", status = "up" \/ status' = status, UNCHANGED <<wait, bg_wait, sstables>>,
         Handed' = Handed, \A n \in Numbers : Sealed(n)' = Sealed(n)
  PROVE  OrderInv'
<1>1. Ordered'
  BY DEF OrderInv, Ordered
<1>2. Unserialised' = Unserialised
  BY DEF Unserialised
<1>3. status' # "open" => Counted'
  BY <1>2 DEF OrderInv, Counted
<1> QED BY <1>1, <1>3 DEF OrderInv

\* With one CompWorker every step serialises the oldest table that has no SSTable.
LEMMA OrderStep ==
  ASSUME task_workers_n = 1, FlushInv, FlushTypes', OrderInv, [Next]_vars
  PROVE  OrderInv'
<1>v. CASE UNCHANGED vars
  <2>1. status' # "sstable_vec" /\ status' = status /\ UNCHANGED <<wait, bg_wait, sstables>>
    BY <1>v DEF vars, OrderInv
  <2>2. UNCHANGED <<level, retiring>>
    BY <1>v DEF vars, taskVars
  <2>3. \A n \in Numbers : Sealed(n)' = Sealed(n)
    BY <2>2 DEF Sealed
  <2>4. Handed' = Handed
    BY <2>3 DEF Handed
  <2> QED BY <2>1, <2>3, <2>4, OrderSame
<1>x. SUFFICES ASSUME Next PROVE OrderInv'
  BY <1>v
<1>a. status = "up"
  BY <1>x DEF Next, TaskWorker, CompWorker, AddReadOnlyTable, Retire, DropFlushed, Take, Flush, EndFlush,
         Merge, EndMerge, Nothing, Peek, EndPeek, Complete
<1>0. /\ FlushTypes /\ Pending /\ Apart /\ Distinct /\ BatchOnly /\ Ordered /\ Counted
      /\ status # "sstable_vec"
  BY <1>a DEF FlushInv, OrderInv
<1>w. CompWorkers = {0}
  BY DEF CompWorkers
<1>t. /\ wait \in [CompWorkers -> Seq(Table)] /\ bg_wait \in [CompWorkers -> Seq(Table)]
      /\ sstables \in [Numbers -> Nat]
      /\ wait[0] \in Seq(Table) /\ bg_wait[0] \in Seq(Table)
  BY <1>0, <1>w DEF FlushTypes
<1>h. \A t \in Handed : t \in Table /\ t[1] \in Numbers /\ t[2] \in Nat /\ t[2] < Sealed(t[1])
  BY <1>0, HandedIs, TableParts DEF HandedParts
<1>u. \A t \in Unserialised : t \in Handed
  BY <1>0, <1>w, ContentIs DEF Pending, Stages, Unserialised
<1>n. \A n \in Numbers : Sealed(n) \in Nat
  BY <1>0, SealedNat
<1>1. ASSUME NEW n \in Numbers, AddReadOnlyTable(n) PROVE OrderInv'
  <2> PICK t : t = <<n, level[n]>>
    OBVIOUS
  <2>1. UNCHANGED <<status, sstables, wait>>
    BY <1>1 DEF AddReadOnlyTable
  <2>2. bg_wait'[0] = Append(bg_wait[0], t)
    <3>1. current_comp_index = 0
      BY <1>0, <1>w DEF FlushTypes
    <3>2. bg_wait' = [bg_wait EXCEPT ![0] = Append(@, t)]
      BY <1>1, <3>1 DEF AddReadOnlyTable, AddSStable
    <3> QED BY <1>t, <1>w, <3>2
  <2>3. t \in Table /\ t[1] = n /\ t[2] = level[n] /\ level[n] \in Nat
    BY <1>0 DEF Table, FlushTypes
  <2>4. /\ Sealed(n) = level[n] /\ Sealed(n)' = Sealed(n) + 1
        /\ \A m \in Numbers \ {n} : Sealed(m)' = Sealed(m)
    BY <1>0, <1>1, SealedBy
  <2>5. t \notin Handed /\ Handed' = Handed \cup {t}
    BY <1>0, <1>1, HandedBy
  <2>6. \A a \in Unserialised : a[1] = t[1] => a[2] < t[2]
    BY <1>h, <1>u, <2>3, <2>4
  <2>7. Range(bg_wait'[0]) = Range(bg_wait[0]) \cup {t}
    BY <1>t, <2>2, <2>3, RangeAppend
  <2>8. Ordered'
    <3>1. \A a \in Range(bg_wait[0]) : a[1] = t[1] => a[2] < t[2]
      BY <2>6 DEF Unserialised
    <3>2. InLevelOrder(bg_wait'[0])
      BY <1>0, <1>t, <2>2, <2>3, <3>1, OrderAppend DEF Ordered
    <3>3. \A a \in Range(wait[0]), b \in Range(bg_wait'[0]) : a[1] = b[1] => a[2] < b[2]
      BY <1>0, <2>6, <2>7 DEF Ordered, Unserialised
    <3> QED BY <1>0, <2>1, <3>2, <3>3 DEF Ordered
  <2>9. Counted'
    <3>1. Unserialised' = Unserialised \cup {t}
      BY <2>1, <2>7 DEF Unserialised
    <3>2. \A m \in Numbers : sstables[m] <= Sealed(m) /\ sstables[m] \in Nat
      BY <1>0, <1>t DEF Counted
    <3>3. \A m \in Numbers : sstables[m] <= Sealed(m)'
      BY <1>n, <2>4, <3>2
    <3>4. t[2] >= sstables[t[1]]
      BY <2>3, <2>4, <3>2
    <3>5. \A u \in Handed' : u \in Unserialised' <=> u[2] >= sstables[u[1]]
      BY <1>0, <2>5, <3>1, <3>4 DEF Counted
    <3> QED BY <2>1, <3>3, <3>5 DEF Counted
  <2> QED BY <1>0, <2>1, <2>8, <2>9 DEF OrderInv
<1> SUFFICES ASSUME ~\E n \in Numbers : AddReadOnlyTable(n) PROVE OrderInv'
  BY <1>1
<1>s. Handed' = Handed /\ \A n \in Numbers : Sealed(n)' = Sealed(n)
  BY <1>0, SealedSame, HandedSame
<1>2. ASSUME NEW c \in CompWorkers, Take(c) PROVE OrderInv'
  <2>1. /\ bg_wait' = [bg_wait EXCEPT ![0] = kept[0]] /\ wait' = [wait EXCEPT ![0] = bg_wait[0]]
        /\ UNCHANGED <<status, sstables>> /\ cst[0] = "idle"
    BY <1>2, <1>w DEF Take
  <2>2. kept[0] = <<>> /\ wait[0] = <<>>
    BY <1>0, <1>w, <2>1 DEF BatchOnly
  <2>3. bg_wait'[0] = <<>> /\ wait'[0] = bg_wait[0]
    BY <1>t, <1>w, <2>1, <2>2
  <2>4. Range(<<>>) = {} /\ InLevelOrder(<<>>)
    BY DEF Range, InLevelOrder
  <2>5. Ordered'
    BY <1>0, <2>3, <2>4 DEF Ordered
  <2>6. Unserialised' = Unserialised
    BY <2>2, <2>3, <2>4 DEF Unserialised
  <2>7. Counted'
    BY <1>0, <1>s, <2>1, <2>6 DEF Counted
  <2> QED BY <1>0, <2>1, <2>5, <2>7 DEF OrderInv
<1>3. ASSUME NEW c \in CompWorkers, Flush(c) PROVE OrderInv'
  <2> PICK t, n : t = Head(wait[0]) /\ n = t[1]
    OBVIOUS
  <2>1. wait[0] # <<>> /\ sstables' = [sstables EXCEPT ![n] = @ + 1] /\ UNCHANGED bg_wait
    BY <1>3, <1>w DEF Flush, newSSTable
  <2>2. /\ t \in Range(wait[0]) /\ Range(Tail(wait[0])) = Range(wait[0]) \ {t}
        /\ InLevelOrder(Tail(wait[0]))
        /\ \A u \in Range(wait[0]) : u = t \/ (u[1] = n => t[2] < u[2])
    <3>1. IsInjective(wait[0]) /\ InLevelOrder(wait[0])
      BY <1>0, <1>w DEF Distinct, Ordered
    <3> QED BY <1>t, <2>1, <3>1, RangeTail, OrderTail
  <2>3. t \in Handed /\ t \in Unserialised
    BY <1>u, <2>2 DEF Unserialised
  <2>4. n \in Numbers /\ t[2] \in Nat /\ t[2] < Sealed(n) /\ t = <<n, t[2]>>
    BY <1>h, <2>3, TableParts
  <2>5. t[2] = sstables[n]
    <3>1. t[2] >= sstables[n] /\ sstables[n] \in Nat
      BY <1>0, <1>t, <2>3, <2>4 DEF Counted
    <3> SUFFICES ASSUME t[2] > sstables[n] PROVE FALSE
      BY <2>4, <3>1
    <3> PICK u : u = <<n, sstables[n]>>
      OBVIOUS
    <3>2. u[1] = n /\ u[2] = sstables[n]
      OBVIOUS
    <3>3. u \in Table /\ u[2] < Sealed(u[1])
      BY <1>n, <2>4, <3>1, <3>2 DEF Table
    <3>4. u \in Handed
      BY <1>0, <3>3, HandedIs DEF HandedParts
    <3>5. u \in Unserialised
      BY <1>0, <3>1, <3>2, <3>4 DEF Counted
    <3>6. t[2] < u[2] \/ u = t
      BY <1>0, <2>2, <3>2, <3>5 DEF Ordered, Unserialised
    <3> QED BY <2>4, <3>1, <3>2, <3>6
  <2>o. status' \in {"up", "open"}
    <3>1. t[2] <= sstables[t[1]]
      BY <2>4, <2>5
    <3> QED BY <1>3, <1>w, <3>1 DEF Flush, SSTableInit
  <2>p. CASE status' = "open"
    <3>1. UNCHANGED <<wait, bg_wait>>
      BY <1>3, <2>p DEF Flush
    <3>2. Ordered'
      BY <1>0, <3>1 DEF Ordered
    <3> QED BY <2>p, <3>2 DEF OrderInv
  <2> SUFFICES ASSUME status' = "up" PROVE OrderInv'
    BY <2>o, <2>p
  <2>6. wait' = [wait EXCEPT ![0] = Tail(@)] /\ status' = status
    BY <1>3, <1>a, <1>w DEF Flush
  <2>7. wait'[0] = Tail(wait[0])
    BY <1>t, <1>w, <2>6
  <2>8. Ordered'
    BY <1>0, <2>1, <2>2, <2>7 DEF Ordered
  <2>9. t \notin Range(bg_wait[0])
    <3>1. t \in Content("wait", 0) /\ "wait" \in Stages /\ "bg_wait" \in Stages /\ "wait" # "bg_wait"
      BY <2>2, ContentIs DEF Stages
    <3>2. t \notin Content("bg_wait", 0)
      BY <1>0, <1>w, <3>1 DEF Apart
    <3> QED BY <3>2, ContentIs
  <2>10. Unserialised' = Unserialised \ {t}
    BY <2>1, <2>2, <2>7, <2>9 DEF Unserialised
  <2>11. sstables'[n] = t[2] + 1 /\ \A m \in Numbers \ {n} : sstables'[m] = sstables[m]
    BY <1>t, <2>1, <2>4, <2>5
  <2>12. \A m \in Numbers : sstables'[m] <= Sealed(m)
    BY <1>0, <1>n, <2>4, <2>11 DEF Counted
  <2>13. ASSUME NEW u \in Handed PROVE u \in Unserialised' <=> u[2] >= sstables'[u[1]]
    <3>1. u[1] \in Numbers /\ u[2] \in Nat /\ u = <<u[1], u[2]>>
      BY <1>h, TableParts
    <3>2. u \in Unserialised <=> u[2] >= sstables[u[1]]
      BY <1>0 DEF Counted
    <3>3. CASE u[1] = n
      <4>1. u = t <=> u[2] = t[2]
        BY <2>4, <3>1, <3>3
      <4>2. u \in Unserialised <=> u[2] >= t[2]
        BY <2>5, <3>2, <3>3
      <4>3. sstables'[u[1]] = t[2] + 1
        BY <2>11, <3>3
      <4> QED BY <2>4, <2>10, <3>1, <4>1, <4>2, <4>3
    <3>4. CASE u[1] # n
      <4>1. u # t /\ sstables'[u[1]] = sstables[u[1]]
        BY <2>11, <3>1, <3>4
      <4> QED BY <2>10, <3>2, <4>1
    <3> QED BY <3>3, <3>4
  <2>14. Counted'
    BY <1>s, <2>12, <2>13 DEF Counted
  <2> QED BY <1>0, <2>6, <2>8, <2>14 DEF OrderInv
<1>4. ASSUME NEW n \in Numbers, Retire(n) \/ DropFlushed(n) PROVE OrderInv'
  <2>1. status' # "sstable_vec" /\ UNCHANGED <<wait, bg_wait, sstables>>
    BY <1>0, <1>4 DEF Retire, DropFlushed
  <2> QED BY <1>a, <1>s, <2>1, OrderSame
<1>5. ASSUME NEW c \in CompWorkers, EndFlush(c) \/ Merge(c) \/ EndMerge(c) \/ Nothing(c) \/ EndPeek(c) \/ Complete(c)
      PROVE  OrderInv'
  <2>1. status' # "sstable_vec" /\ UNCHANGED <<wait, bg_wait, sstables>>
    BY <1>0, <1>5 DEF EndFlush, Merge, EndMerge, Nothing, EndPeek, Complete
  <2> QED BY <1>a, <1>s, <2>1, OrderSame
<1>6. ASSUME NEW c \in CompWorkers, Peek(c) PROVE OrderInv'
  <2>1. status' # "sstable_vec" /\ UNCHANGED <<wait, bg_wait, sstables>>
    BY <1>6, ViewAssumption DEF Peek, Load, InitMmap, ViewInit
  <2> QED BY <1>a, <1>s, <2>1, OrderSame
<1> QED BY <1>x, <1>2, <1>3, <1>4, <1>5, <1>6 DEF Next, TaskWorker, CompWorker

\* With one CompWorker, as the configuration's default has it, every number's tables are
\* serialised in level order: the element sstable_vec_[number][level] that newSSTable
\* returns is always there, and the tables that wait are those without an SSTable.
THEOREM InOrderCorrect ==
  ASSUME task_workers_n = 1
  PROVE  Spec => []FlushedInOrder
<1>w. CompWorkers = {0}
  BY DEF CompWorkers
<1>1. Init => OrderInv
  <2> SUFFICES ASSUME Init PROVE OrderInv
    OBVIOUS
  <2>1. /\ FlushTypes /\ wait[0] = <<>> /\ bg_wait[0] = <<>> /\ status = "up"
        /\ \A n \in Numbers : sstables[n] = 0 /\ level[n] = 0 /\ ~retiring[n]
    BY <1>w, FlushInit DEF Init, FlushInv
  <2>2. Range(<<>>) = {} /\ InLevelOrder(<<>>)
    BY DEF Range, InLevelOrder
  <2>3. \A n \in Numbers : Sealed(n) = 0
    BY <2>1 DEF Sealed
  <2>4. \A t : t \notin Handed
    BY <2>1, <2>3, HandedIs, TableParts DEF HandedParts
  <2>5. Ordered
    BY <2>1, <2>2 DEF Ordered
  <2>6. Counted
    BY <2>1, <2>3, <2>4 DEF Counted
  <2> QED BY <2>1, <2>5, <2>6 DEF OrderInv
<1>2. FlushInv /\ FlushInv' /\ OrderInv /\ [Next]_vars => OrderInv'
  <2>1. FlushInv' => FlushTypes'
    BY DEF FlushInv
  <2> QED BY <2>1, OrderStep
<1>3. FlushInv /\ OrderInv => FlushedInOrder
  <2> SUFFICES ASSUME FlushInv, OrderInv PROVE FlushedInOrder
    OBVIOUS
  <2>1. status # "sstable_vec" /\ FlushTypes /\ (status # "open" => Counted)
    BY DEF OrderInv, FlushInv
  <2>2. ASSUME status # "open", NEW t \in Handed
        PROVE  t[2] < sstables[t[1]] <=> \A c \in CompWorkers : t \notin Range(bg_wait[c]) \cup Range(wait[c])
    <3>1. t[1] \in Numbers /\ t[2] \in Nat
      BY <2>1, HandedIs, TableParts DEF HandedParts
    <3>2. sstables[t[1]] \in Nat
      BY <2>1, <3>1 DEF FlushTypes
    <3>3. t \in Unserialised <=> t[2] >= sstables[t[1]]
      BY <2>1, <2>2 DEF Counted
    <3>4. t \in Unserialised <=> t \in Range(bg_wait[0]) \cup Range(wait[0])
      BY DEF Unserialised
    <3> QED BY <1>w, <3>1, <3>2, <3>3, <3>4
  <2> QED BY <2>1, <2>2 DEF FlushedInOrder
<1> QED BY <1>1, <1>2, <1>3, FlushInvCorrect, PTL DEF Spec

=============================================================================
