--------------------------- MODULE ProcStackProofs ---------------------------
(***************************************************************************)
(* Proofs about the memory of an arbre process's stack, for clauses of any *)
(* sizes, any number of blocks and any depth; and that its frames          *)
(* implement the abstract call stack (CallStack).                          *)
(*                                                                         *)
(* The argument: the frames tile the used part of the block (Tiled), so    *)
(* the frame s->frame names, when it is not stale, is the topmost one      *)
(* (Chained); popping it leaves a tiling, and its prev is the frame below. *)
(* A push extends the tiling at its end.  Relocation adds the same         *)
(* difference to every link, which keeps the chain.  IInv joins these with *)
(* the types, the bound on the capacity and the fact that each result      *)
(* register belongs to the caller's clause.                                *)
(*                                                                         *)
(* The mapping to CallStack counts: call i is the frame with i frames at   *)
(* or below it.  A push adds a frame above all others and a pop takes the  *)
(* topmost one off, so neither changes the number of any other frame.  The *)
(* address a RETURN writes to lies in the frame below the popped one,      *)
(* whichever block that frame is in by then.                               *)
(***************************************************************************)
EXTENDS ProcStack, FiniteSetTheorems, SequenceTheorems, TLAPS

\* A frame takes at least its header.
LEMMA BytesPositive ==
    ASSUME NEW c \in Clauses
    PROVE  Bytes(c) \in Nat /\ Bytes(c) >= FrameSize /\ Bytes(c) > 0
<1>1. NLocals[c] \in Nat
  BY ClauseAssumption
<1>2. ValueSize * NLocals[c] \in Nat
  BY <1>1, SizeAssumption
<1> QED
  BY <1>2, SizeAssumption DEF Bytes

\* A register that a CALL or RETURN of clause c names lies inside c's frames.
LEMMA LocalInside ==
    ASSUME NEW c \in Clauses, NEW r \in ResultRegs[c] \cup ReturnRegs[c]
    PROVE  /\ FrameSize + ValueSize * r \in Nat
           /\ FrameSize + ValueSize * r + ValueSize <= Bytes(c)
<1>1. /\ NLocals[c] \in Nat
      /\ r \in Nat
      /\ r + 1 <= NLocals[c]
  BY ClauseAssumption
<1>2. ValueSize \in Nat /\ FrameSize \in Nat
  BY SizeAssumption
<1>3. ValueSize * r \in Nat
  BY <1>1, <1>2
<1>4. ValueSize * (r + 1) <= ValueSize * NLocals[c]
  BY <1>1, <1>2
<1>5. ValueSize * (r + 1) = ValueSize * r + ValueSize
  BY <1>1, <1>2
<1>6. ValueSize * NLocals[c] \in Nat
  BY <1>1, <1>2
<1> QED
  BY <1>2, <1>3, <1>4, <1>5, <1>6 DEF Bytes

\* The initial state satisfies the inductive invariant.
LEMMA InitIInv == Init => IInv
<1> SUFFICES ASSUME Init PROVE IInv
  OBVIOUS
<1>1. DOMAIN mem = {} /\ mem = [o \in DOMAIN mem |-> mem[o]]
  BY DEF Init
<1>2. TypeOK
  BY <1>1, SizeAssumption DEF Init, TypeOK, NULL, Ptr, Pointer
<1>3. Tiled
  BY <1>1, FS_EmptySet DEF Init, Tiled
<1>4. Chained /\ ResultsNamed
  BY <1>1 DEF Init, Chained, ResultsNamed
<1>5. Proportionate
  BY SizeAssumption DEF Init, Proportionate
<1>6. TargetInCaller /\ Phases /\ SpawnedClean
  BY BlockAssumption DEF Init, TargetInCaller, Phases, SpawnedClean
<1> QED
  BY <1>2, <1>3, <1>4, <1>5, <1>6 DEF IInv

\* A push extends the tiling by the new frame and keeps every link.
LEMMA PushKeepsStack ==
    ASSUME IInv, FrameLive,
           NEW c \in Clauses, NEW r \in Nat,
           base \in Blocks,
           frame # NULL => r \in ResultRegs[mem[frame.off].clause],
           StackPush(c, r)
    PROVE  /\ base' \in Blocks
           /\ size' \in Nat /\ capacity' \in Nat /\ depth' \in Nat
           /\ depth' > 0
           /\ frame' \in Pointer /\ frame' # NULL
           /\ mem' = [o \in DOMAIN mem' |-> mem'[o]]
           /\ DOMAIN mem' \subseteq Nat
           /\ \A o \in DOMAIN mem' : mem'[o] \in Header
           /\ Tiled' /\ Chained' /\ Proportionate' /\ ResultsNamed'
           /\ DOMAIN mem' = DOMAIN mem \cup {size}
           /\ \A o \in DOMAIN mem : /\ o < size
                                    /\ mem'[o].clause = mem[o].clause
                                    /\ mem'[o].result = mem[o].result
           /\ mem'[size].clause = c /\ mem'[size].result = r
<1> DEFINE nsize == size + Bytes(c)
           grow  == capacity < nsize
           m     == [o \in DOMAIN mem \cup {size} |->
                        IF o = size
                          THEN [prev |-> frame, clause |-> c, result |-> r]
                          ELSE mem[o]]
           NewEnd(o) == o + Bytes(mem'[o].clause)
<1>1. PICK b \in Blocks :
         /\ grow \/ b = base
         /\ base' = b
         /\ capacity' = IF grow THEN Max2(2 * capacity, nsize) ELSE capacity
         /\ frame' = Ptr(b, size)
         /\ size' = nsize
         /\ mem' = IF depth > 0 /\ grow
                     THEN StackCorrect(m, DOMAIN m, base, b) ELSE m
         /\ depth' = depth + 1
  BY DEF StackPush
<1>2. TypeOK /\ Tiled /\ Chained /\ Proportionate /\ ResultsNamed /\ Phases
  BY DEF IInv
<1>3. /\ size \in Nat /\ capacity \in Nat /\ depth \in Nat
      /\ frame \in Pointer
      /\ DOMAIN mem \subseteq Nat
      /\ \A o \in DOMAIN mem : mem[o] \in Header
  BY <1>2 DEF TypeOK
<1>4. Bytes(c) \in Nat /\ Bytes(c) > 0
  BY BytesPositive, SizeAssumption
<1>5. nsize \in Nat /\ size < nsize
  BY <1>3, <1>4
<1>6. NoBlock # b
  BY BlockAssumption
<1>7. \A o \in DOMAIN mem : EndOf(o) \in Nat /\ o < EndOf(o) /\ o < size
  <2> TAKE o \in DOMAIN mem
  <2>1. mem[o].clause \in Clauses
    BY <1>3 DEF Header
  <2>2. Bytes(mem[o].clause) \in Nat /\ Bytes(mem[o].clause) > 0
    BY <2>1, BytesPositive
  <2> QED
    BY <1>2, <1>3, <2>2 DEF Tiled, EndOf
<1>8. size \notin DOMAIN mem
  BY <1>3, <1>7
<1> HIDE DEF m
\* The frames after the push, whether or not they were relocated.
<1>9. /\ DOMAIN mem' = DOMAIN mem \cup {size}
      /\ mem' = [o \in DOMAIN mem' |-> mem'[o]]
      /\ \A o \in DOMAIN mem : /\ mem'[o].clause = mem[o].clause
                               /\ mem'[o].result = mem[o].result
                               /\ mem'[o].prev = Relocate(mem[o].prev, base, b)
                               /\ mem'[o] \in Header
      /\ mem'[size].clause = c
      /\ mem'[size].result = r
      /\ mem'[size].prev = Relocate(frame, base, b)
      /\ mem'[size] \in Header
  <2>1. DOMAIN m = DOMAIN mem \cup {size} /\ m = [o \in DOMAIN m |-> m[o]]
    BY DEF m
  <2>2. /\ \A o \in DOMAIN mem : m[o] = mem[o]
        /\ m[size] = [prev |-> frame, clause |-> c, result |-> r]
    BY <1>8 DEF m
  <2>3. \A o \in DOMAIN m : m[o] \in Header
    BY <2>1, <2>2, <1>3 DEF Header
  <2>4. \A p \in Pointer : Relocate(p, base, b) \in Pointer
    BY DEF Relocate, Pointer, Ptr, NULL
  <2>5. CASE depth > 0 /\ grow
    <3>1. mem' = [o \in DOMAIN m |->
                    [m[o] EXCEPT !.prev = Relocate(@, base, b)]]
      BY <1>1, <2>5 DEF StackCorrect
    <3>2. \A o \in DOMAIN m :
             /\ mem'[o].clause = m[o].clause
             /\ mem'[o].result = m[o].result
             /\ mem'[o].prev = Relocate(m[o].prev, base, b)
             /\ mem'[o] \in Header
      BY <3>1, <2>3, <2>4 DEF Header
    <3>3. DOMAIN mem' = DOMAIN m /\ mem' = [o \in DOMAIN mem' |-> mem'[o]]
      BY <3>1
    <3>4. \A o \in DOMAIN mem : /\ mem'[o].clause = mem[o].clause
                               /\ mem'[o].result = mem[o].result
                               /\ mem'[o].prev = Relocate(mem[o].prev, base, b)
                               /\ mem'[o] \in Header
      BY <3>2, <2>1, <2>2
    <3>5. /\ mem'[size].clause = c
          /\ mem'[size].result = r
          /\ mem'[size].prev = Relocate(frame, base, b)
          /\ mem'[size] \in Header
      <4>1. size \in DOMAIN m
        BY <2>1
      <4>2. m[size].prev = frame /\ m[size].clause = c /\ m[size].result = r
        BY <2>2
      <4> QED
        BY <3>2, <4>1, <4>2
    <3>6. DOMAIN mem' = DOMAIN mem \cup {size}
      BY <3>3, <2>1
    <3> QED
      BY <3>3, <3>4, <3>5, <3>6
  <2>6. CASE ~(depth > 0 /\ grow)
    <3>1. mem' = m
      BY <1>1, <2>6
    <3>2. \A o \in DOMAIN mem : Relocate(mem[o].prev, base, b) = mem[o].prev
      <4>1. CASE depth > 0
        <5>1. b = base
          BY <4>1, <2>6, <1>1
        <5>2. ASSUME NEW o \in DOMAIN mem, o # 0
              PROVE  Relocate(mem[o].prev, base, b) = mem[o].prev
          <6>1. mem[o].prev \in Pointer /\ mem[o].prev.blk = base
            BY <5>2, <1>2, <1>3 DEF Chained, Header
          <6> QED
            BY <5>1, <6>1 DEF Relocate, Pointer, NULL, Ptr
        <5>3. ASSUME NEW o \in DOMAIN mem, o = 0
              PROVE  Relocate(mem[o].prev, base, b) = mem[o].prev
          BY <5>3, <1>2 DEF Chained, Relocate
        <5> QED
          BY <5>2, <5>3
      <4>2. CASE ~(depth > 0)
        BY <4>2, <1>2, <1>3, FS_EmptySet DEF Tiled
      <4> QED
        BY <4>1, <4>2
    <3>3. Relocate(frame, base, b) = frame
      <4>1. CASE depth > 0
        <5>1. b = base
          BY <4>1, <2>6, <1>1
        <5> QED
          BY <5>1, <1>3 DEF FrameLive, Relocate, Pointer, NULL, Ptr
      <4>2. CASE ~(depth > 0)
        BY <4>2, <1>2, <1>3 DEF Phases, Relocate
      <4> QED
        BY <4>1, <4>2
    <3> QED
      BY <3>1, <3>2, <3>3, <2>1, <2>2, <2>3
  <2> QED
    BY <2>5, <2>6
<1>10. /\ \A o \in DOMAIN mem : NewEnd(o) = EndOf(o)
       /\ NewEnd(size) = size'
  BY <1>9, <1>1 DEF EndOf
<1>11. Tiled'
  <2>1. IsFiniteSet(DOMAIN mem) /\ Cardinality(DOMAIN mem) = depth
    BY <1>2 DEF Tiled
  <2>2. IsFiniteSet(DOMAIN mem') /\ Cardinality(DOMAIN mem') = depth'
    BY <2>1, <1>8, <1>9, <1>1, FS_AddElement
  <2>3. \A o \in DOMAIN mem' : NewEnd(o) <= size'
    BY <1>1, <1>2, <1>3, <1>5, <1>7, <1>9, <1>10 DEF Tiled
  <2>4. \A o, p \in DOMAIN mem' : o < p => NewEnd(o) <= p
    BY <1>2, <1>3, <1>7, <1>9, <1>10 DEF Tiled
  <2>5. \A o \in DOMAIN mem' : o = 0 \/ \E p \in DOMAIN mem' : NewEnd(p) = o
    <3>1. \A o \in DOMAIN mem : o = 0 \/ \E p \in DOMAIN mem' : NewEnd(p) = o
      BY <1>2, <1>9, <1>10 DEF Tiled
    <3>2. size = 0 \/ \E p \in DOMAIN mem' : NewEnd(p) = size
      <4>1. CASE frame = NULL
        BY <4>1, <1>2, <1>3, FS_EmptySet DEF Tiled, Chained
      <4>2. CASE frame # NULL
        BY <4>2, <1>2, <1>9, <1>10 DEF Chained
      <4> QED
        BY <4>1, <4>2
    <3> QED
      BY <3>1, <3>2, <1>9
  <2>6. size' # 0 /\ DOMAIN mem' # {}
    BY <1>1, <1>3, <1>5, <1>9
  <2> QED
    BY <2>2, <2>3, <2>4, <2>5, <2>6 DEF Tiled, EndOf
<1>12. frame' = Ptr(b, size) /\ frame' # NULL /\ frame'.blk = b /\ frame'.off = size
  BY <1>1, <1>6 DEF Ptr, NULL
<1>13. \A p \in Pointer : p # NULL /\ p.blk = base =>
          /\ Relocate(p, base, b).blk = b
          /\ Relocate(p, base, b).off = p.off
  BY DEF Relocate, Ptr
<1>14. \A o \in DOMAIN mem' :
          IF o = 0 THEN mem'[o].prev = NULL
          ELSE /\ mem'[o].prev.blk = b
               /\ mem'[o].prev.off \in DOMAIN mem
               /\ EndOf(mem'[o].prev.off) = o
               /\ mem'[o].prev.off = IF o = size THEN frame.off
                                                 ELSE mem[o].prev.off
  <2>1. ASSUME NEW o \in DOMAIN mem, o = 0
        PROVE  mem'[o].prev = NULL
    BY <2>1, <1>2, <1>9 DEF Chained, Relocate
  <2>2. ASSUME NEW o \in DOMAIN mem, o # 0
        PROVE  /\ mem'[o].prev.blk = b
               /\ mem'[o].prev.off \in DOMAIN mem
               /\ EndOf(mem'[o].prev.off) = o
               /\ mem'[o].prev.off = mem[o].prev.off
    <3>1. mem[o].prev \in Pointer /\ mem[o].prev.blk = base
      BY <2>2, <1>2, <1>3 DEF Chained, Header
    <3>2. mem[o].prev # NULL
      BY <3>1, BlockAssumption DEF NULL, Ptr
    <3> QED
      BY <2>2, <3>1, <3>2, <1>2, <1>9, <1>13 DEF Chained
  <2>3. CASE frame = NULL
    <3>1. DOMAIN mem = {} /\ size = 0
      BY <2>3, <1>2, <1>3, FS_EmptySet DEF Tiled, Chained
    <3> QED
      BY <2>3, <3>1, <1>9 DEF Relocate
  <2>4. CASE frame # NULL
    <3>1. frame.off \in DOMAIN mem /\ EndOf(frame.off) = size /\ frame.blk = base
      BY <2>4, <1>2 DEF Chained, FrameLive
    <3>2. size # 0
      BY <3>1, <1>3, <1>7
    <3>3. mem'[size].prev.blk = b /\ mem'[size].prev.off = frame.off
      BY <2>4, <3>1, <1>3, <1>9, <1>13
    <3> QED
      BY <2>1, <2>2, <3>1, <3>2, <3>3, <1>8, <1>9
  <2> QED
    BY <2>3, <2>4
<1>15. Chained'
  <2>1. depth' # 0
    BY <1>1, <1>3
  <2>2. frame'.off \in DOMAIN mem' /\ NewEnd(size) = size'
    BY <1>9, <1>10, <1>12
  <2>3. \A o \in DOMAIN mem' :
           IF o = 0 THEN mem'[o].prev = NULL
           ELSE /\ mem'[o].prev.blk = base'
                /\ mem'[o].prev.off \in DOMAIN mem'
                /\ NewEnd(mem'[o].prev.off) = o
    BY <1>1, <1>9, <1>10, <1>14
  <2>4. NewEnd(frame'.off) = size'
    BY <2>2, <1>12
  <2> QED
    BY <2>1, <2>2, <2>3, <2>4, <1>12 DEF Chained, EndOf
<1>16. Proportionate'
  BY <1>1, <1>2, <1>3, <1>4, SizeAssumption DEF Proportionate, Max2
<1>17. ResultsNamed'
  <2>1. ASSUME NEW o \in DOMAIN mem', o # 0
        PROVE  mem'[o].result \in ResultRegs[mem'[mem'[o].prev.off].clause]
    <3>1. CASE o = size
      <4>1. frame # NULL
        BY <2>1, <3>1, <1>2, <1>3, FS_EmptySet DEF Tiled, Chained
      <4> QED
        BY <4>1, <2>1, <3>1, <1>9, <1>14
    <3>2. CASE o # size
      <4>1. o \in DOMAIN mem
        BY <3>2, <1>9
      <4>2. mem[o].result \in ResultRegs[mem[mem[o].prev.off].clause]
        BY <4>1, <2>1, <1>2 DEF ResultsNamed
      <4> QED
        BY <4>1, <4>2, <3>2, <2>1, <1>9, <1>14
    <3> QED
      BY <3>1, <3>2
  <2> QED
    BY <2>1 DEF ResultsNamed
<1>18. /\ base' \in Blocks /\ size' \in Nat /\ depth' \in Nat /\ depth' > 0
       /\ frame' \in Pointer
  BY <1>1, <1>3, <1>5 DEF Pointer, Ptr
<1>19. capacity' \in Nat
  BY <1>1, <1>3, <1>5 DEF Max2
<1>20. DOMAIN mem' \subseteq Nat /\ \A o \in DOMAIN mem' : mem'[o] \in Header
  BY <1>3, <1>9
<1> QED
  BY <1>7, <1>9, <1>11, <1>12, <1>15, <1>16, <1>17, <1>18, <1>19, <1>20

\* A pop takes the topmost frame off the tiling and makes its prev current.
LEMMA PopKeepsStack ==
    ASSUME IInv, FrameLive, status = "running", StackPop
    PROVE  /\ base' \in Blocks \cup {NoBlock}
           /\ size' \in Nat /\ capacity' \in Nat /\ depth' \in Nat
           /\ depth' > 0 <=> frame' # NULL
           /\ depth' > 0 => base' # NoBlock
           /\ frame' \in Pointer
           /\ mem' = [o \in DOMAIN mem' |-> mem'[o]]
           /\ DOMAIN mem' \subseteq Nat
           /\ \A o \in DOMAIN mem' : mem'[o] \in Header
           /\ Tiled' /\ Chained' /\ Proportionate' /\ ResultsNamed'
           /\ frame' # NULL =>
                mem[frame.off].result \in ResultRegs[mem'[frame'.off].clause]
           /\ frame.off \in DOMAIN mem
           /\ DOMAIN mem' = DOMAIN mem \ {frame.off}
           /\ \A o \in DOMAIN mem' : /\ o < frame.off
                                     /\ mem'[o].clause = mem[o].clause
                                     /\ mem'[o].result = mem[o].result
           /\ frame' # NULL =>
                /\ frame'.off \in DOMAIN mem'
                /\ frame'.off + Bytes(mem'[frame'.off].clause) = frame.off
<1> DEFINE top    == frame.off
           f      == mem[top]
           nsize  == size - Bytes(f.clause)
           resize == OutOfProportion(capacity, nsize)
           rest   == [o \in DOMAIN mem \ {top} |-> mem[o]]
           NewEnd(o) == o + Bytes(mem'[o].clause)
<1>1. PICK b \in IF resize THEN (IF nsize = 0 THEN {NoBlock} ELSE Blocks)
                           ELSE {base} :
         /\ base' = b
         /\ capacity' = IF resize THEN 2 * nsize ELSE capacity
         /\ size' = nsize
         /\ depth' = depth - 1
         /\ frame' = f.prev
         /\ mem' = IF b # base
                     THEN StackCorrect(rest, DOMAIN rest \ {f.prev.off}, base, b)
                     ELSE rest
  BY DEF StackPop
<1>2. TypeOK /\ Tiled /\ Chained /\ Proportionate /\ ResultsNamed /\ Phases
  BY DEF IInv
<1>3. /\ size \in Nat /\ capacity \in Nat /\ depth \in Nat
      /\ frame \in Pointer
      /\ DOMAIN mem \subseteq Nat
      /\ \A o \in DOMAIN mem : mem[o] \in Header
  BY <1>2 DEF TypeOK
<1>4. /\ frame # NULL /\ frame.blk = base /\ base \in Blocks
      /\ top \in DOMAIN mem /\ EndOf(top) = size
      /\ depth > 0
  BY <1>2, <1>3 DEF Phases, Chained, FrameLive, TypeOK
<1>5. f \in Header /\ f.clause \in Clauses /\ f.prev \in Pointer
  BY <1>3, <1>4 DEF Header
<1>6. \A o \in DOMAIN mem : EndOf(o) \in Nat /\ o < EndOf(o) /\ EndOf(o) <= size
  <2> TAKE o \in DOMAIN mem
  <2>1. mem[o].clause \in Clauses
    BY <1>3 DEF Header
  <2>2. Bytes(mem[o].clause) \in Nat /\ Bytes(mem[o].clause) > 0
    BY <2>1, BytesPositive
  <2> QED
    BY <1>2, <1>3, <2>2 DEF Tiled, EndOf
<1>7. nsize = top /\ top \in Nat /\ top < size
  <2>1. Bytes(f.clause) \in Nat
    BY <1>5, BytesPositive
  <2>2. top \in Nat
    BY <1>3, <1>4
  <2>3. size = top + Bytes(f.clause)
    BY <1>4 DEF EndOf
  <2>4. top < size
    BY <1>4, <1>6
  <2> QED
    BY <2>1, <2>2, <2>3, <2>4
<1> HIDE DEF nsize, resize, rest
\* The other frames all lie below the popped one.
<1>8. \A o \in DOMAIN mem : o # top => EndOf(o) <= top /\ o < top
  <2> SUFFICES ASSUME NEW o \in DOMAIN mem, o # top
               PROVE  EndOf(o) <= top /\ o < top
    OBVIOUS
  <2>1. ~(top < o)
    BY <1>2, <1>3, <1>4, <1>6 DEF Tiled
  <2>2. o < top
    BY <2>1, <1>3, <1>4
  <2> QED
    BY <2>2, <1>2, <1>4 DEF Tiled
<1>9. IF top = 0 THEN f.prev = NULL
      ELSE /\ f.prev.blk = base
           /\ f.prev.off \in DOMAIN mem \ {top}
           /\ EndOf(f.prev.off) = top
           /\ f.prev # NULL
  <2>1. CASE top = 0
    BY <2>1, <1>2, <1>4 DEF Chained
  <2>2. CASE top # 0
    <3>1. f.prev.blk = base /\ f.prev.off \in DOMAIN mem /\ EndOf(f.prev.off) = top
      BY <2>2, <1>2, <1>4 DEF Chained
    <3>2. f.prev.off # top
      BY <3>1, <1>6
    <3>3. f.prev # NULL
      BY <3>1, <1>4, BlockAssumption DEF NULL, Ptr
    <3> QED
      BY <2>2, <3>1, <3>2, <3>3
  <2> QED
    BY <2>1, <2>2
\* The remaining frames; their links change only when the block moves.
<1>10. /\ DOMAIN mem' = DOMAIN mem \ {top}
       /\ mem' = [o \in DOMAIN mem' |-> mem'[o]]
       /\ \A o \in DOMAIN mem' : /\ mem'[o].clause = mem[o].clause
                                 /\ mem'[o].result = mem[o].result
                                 /\ mem'[o] \in Header
       /\ b = base => \A o \in DOMAIN mem' : mem'[o].prev = mem[o].prev
  <2>1. /\ DOMAIN rest = DOMAIN mem \ {top}
        /\ rest = [o \in DOMAIN rest |-> rest[o]]
        /\ \A o \in DOMAIN rest : rest[o] = mem[o] /\ rest[o] \in Header
    BY <1>3 DEF rest
  <2>2. CASE b = base
    <3>1. mem' = rest
      BY <1>1, <2>2
    <3> QED
      BY <3>1, <2>1
  <2>3. CASE b # base
    <3>1. b \in Blocks \cup {NoBlock}
      BY <1>1, <1>4
    <3>2. \A p \in Pointer : Relocate(p, base, b) \in Pointer
      BY <3>1 DEF Relocate, Pointer, Ptr, NULL
    <3>3. mem' = [o \in DOMAIN rest |->
                    IF o \in DOMAIN rest \ {f.prev.off}
                      THEN [rest[o] EXCEPT !.prev = Relocate(@, base, b)]
                      ELSE rest[o]]
      BY <1>1, <2>3 DEF StackCorrect
    <3>4. \A o \in DOMAIN rest : /\ mem'[o].clause = rest[o].clause
                                 /\ mem'[o].result = rest[o].result
                                 /\ mem'[o] \in Header
      BY <3>2, <3>3, <2>1 DEF Header
    <3>5. DOMAIN mem' = DOMAIN mem \ {top} /\ mem' = [o \in DOMAIN mem' |-> mem'[o]]
      BY <3>3, <2>1
    <3> QED
      BY <2>1, <2>3, <3>4, <3>5
  <2> QED
    BY <2>2, <2>3
<1>11. \A o \in DOMAIN mem' : NewEnd(o) = EndOf(o) /\ o \in DOMAIN mem /\ o # top
  BY <1>10 DEF EndOf
<1>12. Tiled'
  <2>1. IsFiniteSet(DOMAIN mem') /\ Cardinality(DOMAIN mem') = depth'
    <3>1. IsFiniteSet(DOMAIN mem) /\ Cardinality(DOMAIN mem) = depth
      BY <1>2 DEF Tiled
    <3>2. /\ IsFiniteSet(DOMAIN mem \ {top})
          /\ Cardinality(DOMAIN mem \ {top}) = depth - 1
      BY <3>1, <1>4, FS_RemoveElement
    <3> QED
      BY <3>2, <1>1, <1>10
  <2>2. \A o \in DOMAIN mem' : NewEnd(o) <= size'
    BY <1>1, <1>7, <1>8, <1>11
  <2>3. \A o \in DOMAIN mem' : o = 0 \/ \E p \in DOMAIN mem' : NewEnd(p) = o
    <3> SUFFICES ASSUME NEW o \in DOMAIN mem', o # 0
                 PROVE  \E p \in DOMAIN mem' : NewEnd(p) = o
      OBVIOUS
    <3>1. PICK p \in DOMAIN mem : EndOf(p) = o
      BY <1>2, <1>11 DEF Tiled
    <3>2. p # top
      BY <3>1, <1>3, <1>4, <1>7, <1>8, <1>11
    <3> QED
      BY <3>1, <3>2, <1>10, <1>11
  <2>4. \A o, p \in DOMAIN mem' : o < p => NewEnd(o) <= p
    BY <1>2, <1>11 DEF Tiled
  <2>5. size' = 0 <=> DOMAIN mem' = {}
    <3>1. CASE top = 0
      BY <3>1, <1>1, <1>3, <1>7, <1>8, <1>10, <1>11
    <3>2. CASE top # 0
      BY <3>2, <1>1, <1>7, <1>9, <1>10
    <3> QED
      BY <3>1, <3>2
  <2> QED
    BY <2>1, <2>2, <2>3, <2>4, <2>5 DEF Tiled, EndOf
<1>13. frame' # NULL <=> top # 0
  BY <1>1, <1>9
<1>14. depth' \in Nat /\ (depth' > 0 <=> frame' # NULL)
  <2>1. depth' \in Nat
    BY <1>1, <1>3, <1>4
  <2>2. depth' = 0 <=> DOMAIN mem' = {}
    BY <1>12, FS_EmptySet DEF Tiled
  <2>3. DOMAIN mem' = {} <=> top = 0
    BY <1>1, <1>7, <1>12 DEF Tiled
  <2> QED
    BY <2>1, <2>2, <2>3, <1>13
\* When the block moved and frames remain, s->frame is stale, and Chained and
\* ResultsNamed say nothing.
<1>15. ASSUME FrameLive', top # 0 PROVE b = base
  BY <1>15, <1>1, <1>9, <1>13 DEF FrameLive
<1>16. Chained'
  <2> SUFFICES ASSUME FrameLive'
               PROVE  /\ frame' = NULL <=> depth' = 0
                      /\ frame' # NULL => /\ frame'.off \in DOMAIN mem'
                                          /\ NewEnd(frame'.off) = size'
                      /\ \A o \in DOMAIN mem' :
                            IF o = 0 THEN mem'[o].prev = NULL
                            ELSE /\ mem'[o].prev.blk = base'
                                 /\ mem'[o].prev.off \in DOMAIN mem'
                                 /\ NewEnd(mem'[o].prev.off) = o
    BY DEF Chained, EndOf
  <2>1. frame' = NULL <=> depth' = 0
    BY <1>14
  <2>2. ASSUME frame' # NULL
        PROVE  frame'.off \in DOMAIN mem' /\ NewEnd(frame'.off) = size'
    BY <2>2, <1>1, <1>7, <1>9, <1>10, <1>11, <1>13
  <2>3. ASSUME NEW o \in DOMAIN mem'
        PROVE  IF o = 0 THEN mem'[o].prev = NULL
               ELSE /\ mem'[o].prev.blk = base'
                    /\ mem'[o].prev.off \in DOMAIN mem'
                    /\ NewEnd(mem'[o].prev.off) = o
    <3>1. top # 0
      BY <1>3, <1>8, <1>11
    <3>2. b = base /\ mem'[o].prev = mem[o].prev
      BY <3>1, <1>10, <1>15
    <3>3. CASE o = 0
      BY <3>2, <3>3, <1>2, <1>11 DEF Chained
    <3>4. CASE o # 0
      <4>1. /\ mem[o].prev.blk = base
            /\ mem[o].prev.off \in DOMAIN mem
            /\ EndOf(mem[o].prev.off) = o
        BY <3>4, <1>2, <1>11 DEF Chained
      <4>2. mem[o].prev.off # top
        BY <4>1, <1>3, <1>4, <1>6, <1>7, <1>8, <1>11
      <4> QED
        BY <3>2, <3>4, <4>1, <4>2, <1>1, <1>10, <1>11
    <3> QED
      BY <3>3, <3>4
  <2> QED
    BY <2>1, <2>2, <2>3
<1>17. Proportionate' /\ capacity' \in Nat /\ size' \in Nat
  BY <1>1, <1>2, <1>3, <1>7, SizeAssumption
  DEF Proportionate, OutOfProportion, resize
<1>18. ResultsNamed'
  <2> SUFFICES ASSUME FrameLive', NEW o \in DOMAIN mem', o # 0
               PROVE  mem'[o].result \in ResultRegs[mem'[mem'[o].prev.off].clause]
    BY DEF ResultsNamed
  <2>1. top # 0
    BY <1>3, <1>8, <1>11
  <2>2. b = base /\ mem'[o].prev = mem[o].prev
    BY <2>1, <1>10, <1>15
  <2>3. mem[o].prev.off \in DOMAIN mem'
    BY <2>2, <1>16 DEF Chained
  <2> QED
    BY <2>2, <2>3, <1>2, <1>10, <1>11 DEF ResultsNamed
<1>19. frame' # NULL =>
         mem[frame.off].result \in ResultRegs[mem'[frame'.off].clause]
  <2> HAVE frame' # NULL
  <2>1. f.result \in ResultRegs[mem[f.prev.off].clause]
    BY <1>2, <1>4, <1>13 DEF ResultsNamed
  <2> QED
    BY <2>1, <1>1, <1>9, <1>10, <1>13
<1>20. /\ base' \in Blocks \cup {NoBlock}
       /\ depth' > 0 => base' # NoBlock
  <2>1. b \in Blocks \cup {NoBlock}
    BY <1>1, <1>4
  <2>2. depth' > 0 => top # 0
    BY <1>13, <1>14
  <2> QED
    BY <2>1, <2>2, <1>1, <1>4, <1>7, BlockAssumption
<1>21. /\ frame' \in Pointer
       /\ DOMAIN mem' \subseteq Nat
       /\ \A o \in DOMAIN mem' : mem'[o] \in Header
  BY <1>1, <1>3, <1>5, <1>10
<1>22. frame' # NULL =>
         /\ frame'.off \in DOMAIN mem'
         /\ frame'.off + Bytes(mem'[frame'.off].clause) = top
  BY <1>1, <1>9, <1>10, <1>13 DEF EndOf
<1>23. \A o \in DOMAIN mem' : /\ o < top
                              /\ mem'[o].clause = mem[o].clause
                              /\ mem'[o].result = mem[o].result
  BY <1>8, <1>10, <1>11
<1> QED
  BY <1>4, <1>10, <1>12, <1>14, <1>16, <1>17, <1>18, <1>19, <1>20, <1>21,
     <1>22, <1>23

\* Every step of the specification preserves the inductive invariant.
LEMMA NextIInv == IInv /\ [Next]_vars => IInv'
<1> SUFFICES ASSUME IInv, [Next]_vars PROVE IInv'
  OBVIOUS
<1>1. TypeOK /\ Phases /\ Chained
  BY DEF IInv
<1>2. ASSUME NEW c \in Clauses, Run(c) PROVE IInv'
  <2>1. PICK r \in ResultRegs[c] \cup {0} : StackPush(c, r)
    BY <1>2 DEF Run
  <2>2. r \in Nat
    BY ClauseAssumption
  <2>3. FrameLive /\ frame = NULL /\ base \in Blocks
    BY <1>1, <1>2 DEF Run, Phases, TypeOK, FrameLive
  <2>4. status' = "running" /\ value' = value /\ target' = target
    BY <1>2 DEF Run
  <2>5. /\ base' \in Blocks
        /\ size' \in Nat /\ capacity' \in Nat /\ depth' \in Nat
        /\ depth' > 0
        /\ frame' \in Pointer /\ frame' # NULL
        /\ mem' = [o \in DOMAIN mem' |-> mem'[o]]
        /\ DOMAIN mem' \subseteq Nat
        /\ \A o \in DOMAIN mem' : mem'[o] \in Header
        /\ Tiled' /\ Chained' /\ Proportionate' /\ ResultsNamed'
    BY <2>1, <2>2, <2>3, PushKeepsStack
  <2>6. TypeOK' /\ Phases'
    BY <2>4, <2>5, <1>1, BlockAssumption DEF TypeOK, Phases
  <2>7. target = NULL
    BY <1>2 DEF IInv, SpawnedClean, Run
  <2>8. TargetInCaller' /\ SpawnedClean'
    BY <2>4, <2>7 DEF TargetInCaller, SpawnedClean
  <2> QED
    BY <2>5, <2>6, <2>8 DEF IInv
<1>3. ASSUME NEW c \in Clauses, NEW r \in UNION {ResultRegs[d] : d \in Clauses},
             Call(c, r)
      PROVE  IInv'
  <2>1. FrameLive /\ status = "running" /\ StackPush(c, r)
    BY <1>3 DEF Call
  <2>2. frame # NULL => r \in ResultRegs[mem[frame.off].clause]
    BY <1>3 DEF Call
  <2>3. r \in Nat
    BY ClauseAssumption
  <2>4. base \in Blocks
    BY <2>1, <1>1 DEF Phases, TypeOK
  <2>5. /\ base' \in Blocks
        /\ size' \in Nat /\ capacity' \in Nat /\ depth' \in Nat
        /\ depth' > 0
        /\ frame' \in Pointer /\ frame' # NULL
        /\ mem' = [o \in DOMAIN mem' |-> mem'[o]]
        /\ DOMAIN mem' \subseteq Nat
        /\ \A o \in DOMAIN mem' : mem'[o] \in Header
        /\ Tiled' /\ Chained' /\ Proportionate' /\ ResultsNamed'
    BY <2>1, <2>2, <2>3, <2>4, PushKeepsStack
  <2>6. status' = "running" /\ value' = NULL /\ target' = NULL
    BY <1>3 DEF Call
  <2>7. TypeOK' /\ Phases'
    BY <2>5, <2>6, BlockAssumption DEF TypeOK, Phases, NULL, Ptr, Pointer
  <2>8. TargetInCaller' /\ SpawnedClean'
    BY <2>6 DEF TargetInCaller, SpawnedClean
  <2> QED
    BY <2>5, <2>7, <2>8 DEF IInv
<1>4. ASSUME NEW a \in UNION {ReturnRegs[d] : d \in Clauses}, Return(a)
      PROVE  IInv'
  <2> DEFINE result == mem[frame.off].result
  <2>1. FrameLive /\ status = "running" /\ StackPop
    BY <1>4 DEF Return
  <2>2. /\ base' \in Blocks \cup {NoBlock}
        /\ size' \in Nat /\ capacity' \in Nat /\ depth' \in Nat
        /\ depth' > 0 <=> frame' # NULL
        /\ depth' > 0 => base' # NoBlock
        /\ frame' \in Pointer
        /\ mem' = [o \in DOMAIN mem' |-> mem'[o]]
        /\ DOMAIN mem' \subseteq Nat
        /\ \A o \in DOMAIN mem' : mem'[o] \in Header
        /\ Tiled' /\ Chained' /\ Proportionate' /\ ResultsNamed'
        /\ frame' # NULL => result \in ResultRegs[mem'[frame'.off].clause]
    BY <2>1, PopKeepsStack
  <2>3. value' = Local(frame, a)
    BY <1>4 DEF Return
  <2>4. value' \in Pointer
    <3>1. a \in Nat /\ ValueSize \in Nat /\ FrameSize \in Nat
      BY ClauseAssumption, SizeAssumption
    <3>2. ValueSize * a \in Nat
      BY <3>1
    <3> QED
      BY <2>3, <3>1, <3>2, <1>1 DEF TypeOK, Local, Pointer, Ptr
  <2>5. CASE depth' = 0
    <3>1. status' = "returned" /\ target' = NULL
      BY <1>4, <2>5 DEF Return
    <3>2. TypeOK' /\ Phases'
      BY <2>2, <2>4, <2>5, <3>1 DEF TypeOK, Phases, NULL, Ptr, Pointer
    <3>3. TargetInCaller' /\ SpawnedClean'
      BY <3>1 DEF TargetInCaller, SpawnedClean
    <3> QED
      BY <2>2, <3>2, <3>3 DEF IInv
  <2>6. CASE depth' # 0
    <3>1. /\ target' = Local(frame', result)
          /\ status' = "running"
      BY <1>4, <2>1, <2>6 DEF Return
    <3>2. frame' # NULL
      BY <2>2, <2>6
    <3> DEFINE caller == mem'[frame'.off].clause
    <3>3. result \in ResultRegs[caller]
      BY <2>2, <3>2
    <3>4. result \in Nat
      <4>1. frame.off \in DOMAIN mem
        BY <2>1, <1>1 DEF Phases, Chained
      <4> QED
        BY <4>1, <1>1 DEF TypeOK, Header
    <3>5. ValueSize * result \in Nat /\ ValueSize \in Nat /\ FrameSize \in Nat
      BY <3>4, SizeAssumption
    <3>6. target' \in Pointer
      BY <3>1, <3>5, <2>2 DEF Local, Pointer, Ptr
    <3>7. TypeOK' /\ Phases' /\ SpawnedClean'
      BY <2>2, <2>4, <2>6, <3>1, <3>2, <3>6
      DEF TypeOK, Phases, SpawnedClean
    <3>8. ASSUME FrameLive'
          PROVE  /\ target'.blk = base'
                 /\ \E r \in ResultRegs[caller] : target' = Local(frame', r)
                 /\ target'.off + ValueSize <= size'
      <4>1. frame'.blk = base'
        BY <3>2, <3>8 DEF FrameLive
      <4>2. frame'.off \in DOMAIN mem' /\ frame'.off + Bytes(caller) = size'
        BY <2>2, <3>2, <3>8 DEF Chained, EndOf
      <4>3. caller \in Clauses /\ frame'.off \in Nat
        BY <4>2, <2>2 DEF Header
      <4>4. FrameSize + ValueSize * result + ValueSize <= Bytes(caller)
        BY <3>3, <4>3, LocalInside
      <4>5. Bytes(caller) \in Nat
        BY <4>3, BytesPositive
      <4>6. target'.off = frame'.off + FrameSize + ValueSize * result
        BY <3>1 DEF Local, Ptr
      <4>7. target'.blk = base'
        BY <3>1, <4>1 DEF Local, Ptr
      <4>8. target'.off + ValueSize <= size'
        BY <4>2, <4>3, <4>4, <4>5, <4>6, <3>5
      <4> QED
        BY <3>1, <3>3, <4>7, <4>8
    <3>9. TargetInCaller'
      BY <3>8 DEF TargetInCaller
    <3> QED
      BY <2>2, <3>7, <3>9 DEF IInv
  <2> QED
    BY <2>5, <2>6
<1>5. CASE UNCHANGED vars
  BY <1>5 DEF vars, stack, IInv, TypeOK, Tiled, Chained, Proportionate,
     TargetInCaller, ResultsNamed, Phases, SpawnedClean, FrameLive, EndOf
<1> QED
  BY <1>2, <1>3, <1>4, <1>5 DEF Next

\* The inductive invariant holds throughout every run of a process.
THEOREM Invariance == Spec => []IInv
<1>1. Init => IInv
  BY InitIInv
<1>2. IInv /\ [Next]_vars => IInv'
  BY NextIInv
<1> QED
  BY <1>1, <1>2, PTL DEF Spec

\* stack.frame, stack.size, the headers and the saved addresses keep the types
\* runtime.h gives them.
THEOREM TypeCorrect == Spec => []TypeOK
<1>1. IInv => TypeOK
  BY DEF IInv
<1> QED
  BY <1>1, Invariance, PTL

\* stack_push and stack_pop keep the frames apart: no two calls share memory.
THEOREM FramesTile == Spec => []Tiled
<1>1. IInv => Tiled
  BY DEF IInv
<1> QED
  BY <1>1, Invariance, PTL

\* Until a pop moves the block, s->frame and the prev links name exactly the
\* frames of the block, in order, however often pushes have moved it.
THEOREM LinksIntact == Spec => []Chained
<1>1. IInv => Chained
  BY DEF IInv
<1> QED
  BY <1>1, Invariance, PTL

\* stack_push and stack_pop together bound the memory of a stack by twice the
\* bytes in use plus STACK_MAXDIFF.
THEOREM MemoryProportionate == Spec => []Proportionate
<1>1. IInv => Proportionate
  BY DEF IInv
<1> QED
  BY <1>1, Invariance, PTL

\* OP_RETURN writes the returned value into a register of the caller.
THEOREM ReturnsToCaller == Spec => []TargetInCaller
<1>1. IInv => TargetInCaller
  BY DEF IInv
<1> QED
  BY <1>1, Invariance, PTL

\* realloc leaves the block where it is, or frees it, when a RETURN resizes it.
PopsInPlace == depth' < depth => base' \in {base, NoBlock}

\* The one thing stack_pop needs of the allocator for s->frame to be good at
\* every instruction: that realloc never moves a block in stack_pop.
THEOREM FrameLiveIfPopsInPlace == Spec /\ [][PopsInPlace]_vars => []FrameLive
<1>1. Init => FrameLive
  BY DEF Init, FrameLive
<1>2. ASSUME IInv, FrameLive, [Next]_vars, [PopsInPlace]_vars
      PROVE  FrameLive'
  <2>1. TypeOK /\ Chained /\ Phases
    BY <1>2 DEF IInv
  <2>2. ASSUME NEW c \in Clauses, NEW r, StackPush(c, r)
        PROVE  FrameLive'
    BY <2>2 DEF StackPush, FrameLive, Ptr
  <2>3. ASSUME NEW a \in UNION {ReturnRegs[d] : d \in Clauses}, Return(a)
        PROVE  FrameLive'
    <3>1. status = "running" /\ StackPop
      BY <2>3 DEF Return
    <3>2. /\ depth' > 0 <=> frame' # NULL
          /\ depth' > 0 => base' # NoBlock
      BY <1>2, <3>1, PopKeepsStack
    <3>3. depth' = depth - 1 /\ frame' = mem[frame.off].prev
      BY <3>1 DEF StackPop
    <3>4. depth' < depth
      BY <3>3, <2>1 DEF TypeOK
    <3>5. base' \in {base, NoBlock}
      BY <1>2, <3>4 DEF PopsInPlace, vars, stack
    <3>6. CASE frame' = NULL
      BY <3>6 DEF FrameLive
    <3>7. CASE frame' # NULL
      <4>1. base' = base
        BY <3>2, <3>5, <3>7
      <4>2. frame.off \in DOMAIN mem
        BY <3>1, <1>2, <2>1 DEF Phases, Chained
      <4>3. frame'.blk = base
        BY <4>2, <3>3, <3>7, <1>2, <2>1 DEF Chained
      <4> QED
        BY <4>1, <4>3 DEF FrameLive
    <3> QED
      BY <3>6, <3>7
  <2>4. CASE UNCHANGED vars
    BY <1>2, <2>4 DEF vars, stack, FrameLive
  <2> QED
    BY <1>2, <2>2, <2>3, <2>4 DEF Next, Run, Call
<1> QED
  BY <1>1, <1>2, Invariance, PTL DEF Spec

\* A pop leaves the block where it is and gives no memory back.
PopsKeepBlock == depth' < depth => base' = base /\ capacity' >= capacity

\* The register of the popped frame that OP_RETURN reads, or hands out as the
\* value of the process, lies in the block.
ValueLive == value # NULL => value.blk = base /\ value.off + ValueSize <= capacity

\* OP_RETURN takes the address of its register before it pops the frame and
\* reads it afterwards (vm.c:664-670): that is memory of the process exactly as
\* long as stack_pop does not shrink or move the block.
THEOREM ValueLiveIfPopsKeepBlock == Spec /\ [][PopsKeepBlock]_vars => []ValueLive
<1>1. Init => ValueLive
  BY DEF Init, ValueLive
<1>2. ASSUME IInv, ValueLive, [Next]_vars, [PopsKeepBlock]_vars
      PROVE  ValueLive'
  <2>1. TypeOK /\ Chained /\ Phases /\ Proportionate /\ SpawnedClean
    BY <1>2 DEF IInv
  <2>2. ASSUME NEW c \in Clauses, Run(c)
        PROVE  ValueLive'
    BY <2>1, <2>2 DEF Run, SpawnedClean, ValueLive
  <2>3. ASSUME NEW c \in Clauses, NEW r, Call(c, r)
        PROVE  ValueLive'
    BY <2>3 DEF Call, ValueLive
  <2>4. ASSUME NEW a \in UNION {ReturnRegs[d] : d \in Clauses}, Return(a)
        PROVE  ValueLive'
    <3> DEFINE c == mem[frame.off].clause
    <3>1. status = "running" /\ StackPop /\ FrameLive /\ a \in ReturnRegs[c]
      BY <2>4 DEF Return
    <3>2. /\ frame # NULL /\ frame.blk = base /\ frame.off \in DOMAIN mem
          /\ frame.off + Bytes(c) = size
      BY <3>1, <2>1 DEF Phases, Chained, FrameLive, EndOf
    <3>3. c \in Clauses /\ frame.off \in Nat
      BY <3>2, <2>1 DEF TypeOK, Header
    <3>4. /\ FrameSize + ValueSize * a \in Nat
          /\ FrameSize + ValueSize * a + ValueSize <= Bytes(c)
      BY <3>1, <3>3, LocalInside
    <3>5. Bytes(c) \in Nat
      BY <3>3, BytesPositive
    <3>6. value' = Ptr(base, frame.off + FrameSize + ValueSize * a)
      BY <2>4, <3>2 DEF Return, Local
    <3>7. depth' = depth - 1
      BY <3>1 DEF StackPop
    <3>8. base' = base /\ capacity' >= capacity
      BY <1>2, <3>7, <2>1 DEF PopsKeepBlock, vars, stack, TypeOK
    <3>9. capacity' \in Nat
      BY <1>2, <3>1, PopKeepsStack
    <3>10. size \in Nat /\ capacity \in Nat /\ size <= capacity
      BY <2>1 DEF TypeOK, Proportionate
    <3>11. value'.blk = base' /\ value'.off = frame.off + FrameSize + ValueSize * a
      BY <3>6, <3>8 DEF Ptr
    <3> DEFINE off == FrameSize + ValueSize * a
    <3>12. frame.off + off + ValueSize <= capacity'
      <4>1. off \in Nat /\ off + ValueSize <= Bytes(c) /\ ValueSize \in Nat
        BY <3>4, SizeAssumption
      <4> HIDE DEF off, c
      <4> QED
        BY <4>1, <3>2, <3>3, <3>5, <3>8, <3>9, <3>10
    <3>13. value'.off = frame.off + off
      <4>1. FrameSize \in Nat /\ ValueSize * a \in Nat
        BY <3>4, SizeAssumption, ClauseAssumption
      <4> QED
        BY <4>1, <3>3, <3>11
    <3> QED
      BY <3>11, <3>12, <3>13 DEF ValueLive
  <2>5. CASE UNCHANGED vars
    BY <1>2, <2>5 DEF vars, stack, ValueLive
  <2> QED
    BY <1>2, <2>2, <2>3, <2>4, <2>5 DEF Next
<1> QED
  BY <1>1, <1>2, Invariance, PTL DEF Spec

-----------------------------------------------------------------------------
(* Counting frames.                                                        *)

\* The number of members of D at or below o.
Rank(D, o) == Cardinality({p \in D : p <= o})

\* The member of D that has rank i.
FrameAt(D, i) == CHOOSE p \in D : Rank(D, p) = i

\* The ranks of a finite set's members lie between 1 and its cardinality and
\* grow with the members.
LEMMA RankGrows ==
    ASSUME NEW D \in SUBSET Nat, IsFiniteSet(D)
    PROVE  /\ Cardinality(D) \in Nat
           /\ \A o \in D : Rank(D, o) \in 1 .. Cardinality(D)
           /\ \A o, q \in D : o < q => Rank(D, o) < Rank(D, q)
<1>1. Cardinality(D) \in Nat
  BY FS_CardinalityType
<1>2. ASSUME NEW o \in D
      PROVE  /\ IsFiniteSet({p \in D : p <= o})
             /\ Rank(D, o) \in Nat
             /\ Rank(D, o) <= Cardinality(D)
  BY FS_Subset, FS_CardinalityType DEF Rank
<1>3. ASSUME NEW o \in D PROVE Rank(D, o) # 0
  <2>1. o \in {p \in D : p <= o}
    OBVIOUS
  <2> QED
    BY <2>1, <1>2, FS_EmptySet DEF Rank
<1>4. ASSUME NEW o \in D, NEW q \in D, o < q
      PROVE  Rank(D, o) < Rank(D, q)
  <2> DEFINE L == {p \in D : p <= o}
             H == {p \in D : p <= q}
  <2>1. IsFiniteSet(L) /\ IsFiniteSet(H)
    BY <1>2
  <2>2. L \subseteq H /\ L # H
    <3>1. o \in Nat /\ q \in Nat
      OBVIOUS
    <3>2. ASSUME NEW p \in L PROVE p \in H
      BY <1>4, <3>1
    <3>3. q \in H /\ q \notin L
      BY <1>4, <3>1
    <3> QED
      BY <3>2, <3>3
  <2>3. Cardinality(L) <= Cardinality(H) /\ Cardinality(L) # Cardinality(H)
    BY <2>1, <2>2, FS_Subset
  <2>4. Cardinality(L) \in Nat /\ Cardinality(H) \in Nat
    BY <2>1, FS_CardinalityType
  <2> QED
    BY <2>3, <2>4 DEF Rank
<1>5. ASSUME NEW o \in D PROVE Rank(D, o) \in 1 .. Cardinality(D)
  <2>1. Rank(D, o) \in Nat /\ Rank(D, o) <= Cardinality(D)
    BY <1>2
  <2>2. Rank(D, o) # 0
    BY <1>3
  <2> QED
    BY <1>1, <2>1, <2>2
<1> QED
  BY <1>1, <1>4, <1>5

\* Every number up to the cardinality is the rank of exactly one member.
LEMMA FrameAtRank ==
    ASSUME NEW D \in SUBSET Nat, IsFiniteSet(D)
    PROVE  /\ \A i \in 1 .. Cardinality(D) :
                 FrameAt(D, i) \in D /\ Rank(D, FrameAt(D, i)) = i
           /\ \A o \in D : FrameAt(D, Rank(D, o)) = o
<1> DEFINE n == Cardinality(D)
           f == [o \in D |-> Rank(D, o)]
<1>1. /\ n \in Nat
      /\ \A o \in D : Rank(D, o) \in 1 .. n
      /\ \A o, q \in D : o < q => Rank(D, o) < Rank(D, q)
  BY RankGrows
<1>2. \A o, q \in D : Rank(D, o) = Rank(D, q) => o = q
  <2> TAKE o, q \in D
  <2>1. o \in Nat /\ q \in Nat
    OBVIOUS
  <2>2. Rank(D, o) \in Nat /\ Rank(D, q) \in Nat
    BY <1>1
  <2> QED
    BY <1>1, <2>1, <2>2
<1>3. f \in Injection(D, 1 .. n)
  BY <1>1, <1>2 DEF Injection, IsInjective
<1>4. IsFiniteSet(1 .. n) /\ Cardinality(1 .. n) = n
  BY <1>1, FS_Interval
<1>5. f \in Surjection(D, 1 .. n)
  BY <1>3, <1>4, FS_Injection
<1>6. \A i \in 1 .. n : \E o \in D : Rank(D, o) = i
  BY <1>5 DEF Surjection
<1> QED
  BY <1>1, <1>2, <1>6 DEF FrameAt

\* A new greatest member leaves the ranks of the others alone and has the
\* highest rank itself.
LEMMA AddGreatest ==
    ASSUME NEW D \in SUBSET Nat, IsFiniteSet(D),
           NEW t \in Nat, \A o \in D : o < t
    PROVE  /\ Cardinality(D) \in Nat
           /\ Cardinality(D \cup {t}) = Cardinality(D) + 1
           /\ \A i \in 1 .. Cardinality(D) :
                 FrameAt(D \cup {t}, i) = FrameAt(D, i) /\ FrameAt(D, i) \in D
           /\ FrameAt(D \cup {t}, Cardinality(D) + 1) = t
<1> DEFINE E == D \cup {t}
           n == Cardinality(D)
<1>1. t \notin D /\ E \in SUBSET Nat
  OBVIOUS
<1>2. IsFiniteSet(E) /\ Cardinality(E) = n + 1
  BY <1>1, FS_AddElement
<1>3. n \in Nat
  BY FS_CardinalityType
<1>4. \A o \in D : Rank(E, o) = Rank(D, o)
  <2> TAKE o \in D
  <2>1. {p \in E : p <= o} = {p \in D : p <= o}
    OBVIOUS
  <2> QED
    BY <2>1 DEF Rank
<1>5. Rank(E, t) = n + 1
  <2>1. \A p \in E : p <= t
    OBVIOUS
  <2>2. {p \in E : p <= t} = E
    BY <2>1
  <2> QED
    BY <2>2, <1>2 DEF Rank
<1> HIDE DEF E
<1>6. \A o \in E : FrameAt(E, Rank(E, o)) = o
  BY <1>1, <1>2, FrameAtRank
<1>7. ASSUME NEW i \in 1 .. n
      PROVE  FrameAt(E, i) = FrameAt(D, i) /\ FrameAt(D, i) \in D
  <2>1. FrameAt(D, i) \in D /\ Rank(D, FrameAt(D, i)) = i
    BY FrameAtRank
  <2> QED
    BY <2>1, <1>4, <1>6 DEF E
<1>8. FrameAt(E, n + 1) = t
  BY <1>5, <1>6 DEF E
<1> QED
  BY <1>2, <1>3, <1>7, <1>8 DEF E

-----------------------------------------------------------------------------
(* The calls a set of frame headers stands for.                            *)

CallOf(h) == [clause |-> h.clause, result |-> h.result]

\* The calls of the headers m, the lowest frame first.
CallsOf(m) == [i \in 1 .. Cardinality(DOMAIN m) |-> CallOf(m[FrameAt(DOMAIN m, i)])]

CallType == [clause : Clauses, result : Nat]

\* The headers m2 are those of m and one more, above them all, at t.
Topped(m, m2, t) ==
    /\ DOMAIN m \in SUBSET Nat
    /\ IsFiniteSet(DOMAIN m)
    /\ t \in Nat
    /\ \A o \in DOMAIN m : o < t
    /\ DOMAIN m2 = DOMAIN m \cup {t}
    /\ \A o \in DOMAIN m : CallOf(m2[o]) = CallOf(m[o])
    /\ \A o \in DOMAIN m2 : m2[o] \in Header

\* A frame above all others is one more call, the innermost one.
LEMMA OneMoreCall ==
    ASSUME NEW m, NEW m2, NEW t, Topped(m, m2, t)
    PROVE  /\ CallsOf(m) \in Seq(CallType)
           /\ Len(CallsOf(m)) = Cardinality(DOMAIN m)
           /\ CallOf(m2[t]) \in CallType
           /\ CallsOf(m2) = Append(CallsOf(m), CallOf(m2[t]))
<1> DEFINE D == DOMAIN m
           n == Cardinality(D)
           s == CallsOf(m)
           x == CallOf(m2[t])
<1>1. /\ n \in Nat
      /\ Cardinality(D \cup {t}) = n + 1
      /\ \A i \in 1 .. n : /\ FrameAt(D \cup {t}, i) = FrameAt(D, i)
                           /\ FrameAt(D, i) \in D
      /\ FrameAt(D \cup {t}, n + 1) = t
  BY AddGreatest DEF Topped
<1>2. \A o \in DOMAIN m2 : CallOf(m2[o]) \in CallType
  BY DEF Topped, Header, CallOf, CallType
<1>3. \A o \in D : CallOf(m[o]) = CallOf(m2[o]) /\ o \in DOMAIN m2
  BY DEF Topped
<1>4. s \in [1 .. n -> CallType]
  BY <1>1, <1>2, <1>3 DEF CallsOf
<1>5. s \in Seq(CallType) /\ Len(s) = n
  BY <1>1, <1>4
<1>6. x \in CallType
  BY <1>2 DEF Topped
<1>7. Append(s, x) = [i \in 1 .. n + 1 |-> IF i = n + 1 THEN x ELSE s[i]]
  BY <1>1, <1>5
<1>8. CallsOf(m2) = [i \in 1 .. n + 1 |-> CallOf(m2[FrameAt(D \cup {t}, i)])]
  BY <1>1 DEF CallsOf, Topped
<1>9. ASSUME NEW i \in 1 .. n + 1
      PROVE  CallOf(m2[FrameAt(D \cup {t}, i)]) = IF i = n + 1 THEN x ELSE s[i]
  <2>1. CASE i = n + 1
    BY <2>1, <1>1
  <2>2. CASE i # n + 1
    <3>1. i \in 1 .. n
      BY <2>2, <1>1
    <3>2. s[i] = CallOf(m[FrameAt(D, i)])
      BY <3>1 DEF CallsOf
    <3> QED
      BY <2>2, <3>1, <3>2, <1>1, <1>3
  <2> QED
    BY <2>1, <2>2
<1>10. CallsOf(m2) = Append(s, x)
  BY <1>7, <1>8, <1>9
<1> QED
  BY <1>5, <1>6, <1>10

-----------------------------------------------------------------------------
(* What the mapping makes of a state.                                      *)

\* The frames that tile the block are the calls of CallStack, one for each.
LEMMA CallsMapped ==
    Tiled => Calls = CallsOf(mem)
BY DEF Tiled, Calls, CallsOf, RankOf, Rank, FrameAt, CallOf

\* A frame ends above its start.
LEMMA EndAbove ==
    ASSUME TypeOK, NEW o \in DOMAIN mem
    PROVE  o \in Nat /\ EndOf(o) \in Nat /\ o + FrameSize <= EndOf(o) /\ o < EndOf(o)
<1>1. o \in Nat /\ mem[o].clause \in Clauses
  BY DEF TypeOK, Header
<1>2. /\ Bytes(mem[o].clause) \in Nat
      /\ Bytes(mem[o].clause) >= FrameSize
      /\ Bytes(mem[o].clause) > 0
  BY <1>1, BytesPositive
<1> QED
  BY <1>1, <1>2, SizeAssumption DEF EndOf

\* The frame s->frame names is the innermost call.
LEMMA InnermostIsTop ==
    ASSUME IInv, FrameLive, status = "running"
    PROVE  /\ Calls \in Seq(CallType) /\ Len(Calls) = depth
           /\ frame.off \in DOMAIN mem
           /\ Calls[depth] = CallOf(mem[frame.off])
<1> DEFINE D   == DOMAIN mem
           top == frame.off
<1>1. TypeOK /\ Tiled /\ Chained /\ Phases
  BY DEF IInv
<1>2. /\ D \in SUBSET Nat /\ IsFiniteSet(D) /\ Cardinality(D) = depth
      /\ depth \in Nat /\ depth > 0
      /\ \A o \in D : mem[o] \in Header
  BY <1>1 DEF TypeOK, Tiled, Phases
<1>3. top \in D /\ EndOf(top) = size
  BY <1>1 DEF Phases, Chained
<1>4. \A o \in D : o <= top
  <2> TAKE o \in D
  <2>1. o \in Nat /\ o < EndOf(o) /\ EndOf(o) \in Nat
    BY <1>1, EndAbove
  <2>2. EndOf(o) <= size /\ (top < o => size <= o)
    BY <1>1, <1>3 DEF Tiled
  <2>3. size \in Nat /\ top \in Nat
    BY <1>1, <1>3 DEF TypeOK
  <2> QED
    BY <2>1, <2>2, <2>3
<1>5. Rank(D, top) = depth
  <2>1. {p \in D : p <= top} = D
    BY <1>4
  <2> QED
    BY <2>1, <1>2 DEF Rank
<1>6. FrameAt(D, depth) = top
  BY <1>2, <1>3, <1>5, FrameAtRank
<1>7. Calls = CallsOf(mem)
  BY <1>1, CallsMapped
<1>8. \A o \in D : CallOf(mem[o]) \in CallType
  BY <1>2 DEF Header, CallOf, CallType
<1>9. \A i \in 1 .. depth : FrameAt(D, i) \in D
  BY <1>2, FrameAtRank
<1>10. Calls \in [1 .. depth -> CallType]
  BY <1>2, <1>7, <1>8, <1>9 DEF CallsOf
<1>11. Calls[depth] = CallOf(mem[top])
  BY <1>2, <1>6, <1>7 DEF CallsOf
<1> QED
  BY <1>2, <1>3, <1>10, <1>11

\* A push is one more call.
LEMMA PushIsEnter ==
    ASSUME IInv, FrameLive,
           NEW c \in Clauses, NEW r \in Nat,
           base \in Blocks,
           frame # NULL => r \in ResultRegs[mem[frame.off].clause],
           StackPush(c, r)
    PROVE  /\ Calls \in Seq(CallType) /\ Len(Calls) = depth
           /\ Calls' = Append(Calls, [clause |-> c, result |-> r])
<1>1. TypeOK /\ Tiled
  BY DEF IInv
<1>2. /\ Tiled'
      /\ DOMAIN mem' = DOMAIN mem \cup {size}
      /\ \A o \in DOMAIN mem : /\ o < size
                               /\ mem'[o].clause = mem[o].clause
                               /\ mem'[o].result = mem[o].result
      /\ mem'[size].clause = c /\ mem'[size].result = r
      /\ \A o \in DOMAIN mem' : mem'[o] \in Header
  BY PushKeepsStack
<1>3. Topped(mem, mem', size)
  BY <1>1, <1>2 DEF Topped, TypeOK, Tiled, CallOf
<1>4. /\ CallsOf(mem) \in Seq(CallType)
      /\ Len(CallsOf(mem)) = Cardinality(DOMAIN mem)
      /\ CallsOf(mem') = Append(CallsOf(mem), CallOf(mem'[size]))
  BY <1>3, OneMoreCall
<1>5. Calls = CallsOf(mem)
  BY <1>1, CallsMapped
<1>6. Calls' = CallsOf(mem')
  BY <1>2 DEF Tiled, Calls, CallsOf, RankOf, Rank, FrameAt, CallOf
<1>7. CallOf(mem'[size]) = [clause |-> c, result |-> r]
  BY <1>2 DEF CallOf
<1> QED
  BY <1>1, <1>4, <1>5, <1>6, <1>7 DEF Tiled

\* A pop is the end of the innermost call, whether or not it moves the block.
LEMMA PopIsLeave ==
    ASSUME IInv, FrameLive, status = "running", StackPop
    PROVE  /\ Calls' \in Seq(CallType) /\ Len(Calls') = depth'
           /\ depth' = depth - 1
           /\ Calls = Append(Calls', CallOf(mem[frame.off]))
<1>1. TypeOK /\ Tiled
  BY DEF IInv
<1>2. /\ Tiled'
      /\ frame.off \in DOMAIN mem
      /\ DOMAIN mem' \subseteq Nat
      /\ DOMAIN mem' = DOMAIN mem \ {frame.off}
      /\ \A o \in DOMAIN mem' : /\ o < frame.off
                                /\ mem'[o].clause = mem[o].clause
                                /\ mem'[o].result = mem[o].result
  BY PopKeepsStack
<1>3. Topped(mem', mem, frame.off)
  <2>1. IsFiniteSet(DOMAIN mem')
    BY <1>2 DEF Tiled
  <2>2. frame.off \in Nat /\ \A o \in DOMAIN mem : mem[o] \in Header
    BY <1>1, <1>2 DEF TypeOK
  <2>3. DOMAIN mem = DOMAIN mem' \cup {frame.off}
    BY <1>2
  <2>4. \A o \in DOMAIN mem' : CallOf(mem[o]) = CallOf(mem'[o])
    BY <1>2 DEF CallOf
  <2> QED
    BY <1>2, <2>1, <2>2, <2>3, <2>4 DEF Topped
<1>4. /\ CallsOf(mem') \in Seq(CallType)
      /\ Len(CallsOf(mem')) = Cardinality(DOMAIN mem')
      /\ CallsOf(mem) = Append(CallsOf(mem'), CallOf(mem[frame.off]))
  BY <1>3, OneMoreCall
<1>5. Calls = CallsOf(mem)
  BY <1>1, CallsMapped
<1>6. Calls' = CallsOf(mem')
  BY <1>2 DEF Tiled, Calls, CallsOf, RankOf, Rank, FrameAt, CallOf
<1>7. depth' = depth - 1
  BY DEF StackPop
<1> QED
  BY <1>2, <1>4, <1>5, <1>6, <1>7 DEF Tiled

\* Dividing by the size of a value undoes the multiplication by it.
LEMMA RegisterOfOffset ==
    ASSUME NEW v \in Nat \ {0}, NEW r \in Nat
    PROVE  (v * r) \div v = r
<1> DEFINE q == (v * r) \div v
<1>1. v \in Int /\ v > 0 /\ v * r \in Int
  OBVIOUS
<1>2. q \in Int /\ v * q <= v * r /\ v * r < v * (q + 1)
  BY <1>1, Z3
<1> HIDE DEF q
<1>3. v * (r - q) >= 0 /\ v * (r - q) < v
  BY <1>1, <1>2, Z3
<1>4. r - q >= 0 /\ r - q < 1
  BY <1>1, <1>2, <1>3, Z3
<1> QED
  BY <1>2, <1>4 DEF q

\* The address a RETURN writes to is the register its call's frame names, of
\* the call that has become the innermost one.
LEMMA DeliveredToCaller ==
    ASSUME IInv, FrameLive, status = "running", StackPop, depth' # 0,
           target' = Local(frame', mem[frame.off].result)
    PROVE  Delivered' = [call |-> depth', reg |-> mem[frame.off].result]
<1> DEFINE D   == DOMAIN mem'
           o   == frame'.off
           res == mem[frame.off].result
           End(p) == p + Bytes(mem'[p].clause)
<1>1. TypeOK
  BY DEF IInv
<1>2. /\ Tiled' /\ depth' \in Nat
      /\ frame' # NULL /\ frame' \in Pointer
      /\ D \subseteq Nat /\ \A p \in D : mem'[p] \in Header /\ p < frame.off
      /\ frame.off \in DOMAIN mem
      /\ res \in ResultRegs[mem'[o].clause]
      /\ o \in D /\ End(o) = frame.off
  BY PopKeepsStack
<1>3. /\ FrameSize \in Nat /\ FrameSize > 0
      /\ ValueSize \in Nat \ {0}
      /\ frame.off \in Nat /\ o \in Nat
      /\ res \in Nat /\ ValueSize * res \in Nat
  BY <1>1, <1>2, SizeAssumption DEF TypeOK, Header
<1>4. target' = Ptr(frame'.blk, o + FrameSize + ValueSize * res)
  BY DEF Local
<1>5. /\ target'.off = o + FrameSize + ValueSize * res
      /\ target' # NULL
  BY <1>3, <1>4 DEF Ptr, NULL
<1>6. o + FrameSize <= target'.off /\ target'.off < End(o)
  <2>1. mem'[o].clause \in Clauses
    BY <1>2 DEF Header
  <2>2. FrameSize + ValueSize * res + ValueSize <= Bytes(mem'[o].clause)
    BY <1>2, <2>1, LocalInside
  <2>3. Bytes(mem'[o].clause) \in Nat
    BY <2>1, BytesPositive
  <2> QED
    BY <1>3, <1>5, <2>2, <2>3
<1>7. ASSUME NEW p \in D, p + FrameSize <= target'.off, target'.off < End(p)
      PROVE  p = o
  <2>1. p \in Nat /\ mem'[p].clause \in Clauses
    BY <1>2 DEF Header
  <2>2. End(p) \in Nat
    BY <2>1, BytesPositive
  <2>3. /\ p < o => End(p) <= o
        /\ o < p => End(o) <= p
    BY <1>2, <2>1 DEF Tiled, EndOf
  <2>4. ~(p < o)
    BY <1>3, <1>6, <1>7, <2>2, <2>3, <1>5
  <2>5. ~(o < p)
    BY <1>2, <1>3, <1>5, <1>6, <1>7, <2>1, <2>3
  <2>6. p \in Nat /\ o \in Nat
    BY <1>3, <2>1
  <2> HIDE DEF o
  <2> QED
    BY <2>4, <2>5, <2>6
<1>8. o = CHOOSE p \in D : p + FrameSize <= target'.off /\ target'.off < End(p)
  BY <1>2, <1>6, <1>7
<1>9. Cardinality({p \in D : p <= o}) = depth'
  <2>1. \A p \in D : p <= o
    BY <1>2, <1>3 DEF Tiled, EndOf
  <2>2. {p \in D : p <= o} = D
    BY <2>1
  <2> QED
    BY <2>2, <1>2 DEF Tiled
<1>10. (target'.off - o - FrameSize) \div ValueSize = res
  <2>1. target'.off - o - FrameSize = ValueSize * res
    BY <1>3, <1>5
  <2> QED
    BY <2>1, <1>3, RegisterOfOffset
<1> QED
  BY <1>5, <1>8, <1>9, <1>10 DEF Delivered, RankOf, EndOf

\* A process starts with no calls.
LEMMA InitImplements == Init => CS!Init
<1> SUFFICES ASSUME Init PROVE CS!Init
  OBVIOUS
<1>1. Calls = << >>
  BY DEF Calls, Init
<1>2. Delivered = NoDelivery
  BY DEF Init, Delivered
<1> QED
  BY <1>1, <1>2 DEF CS!Init, Init

\* Every step of the frames in memory is a step of the call stack, or none.
LEMMA NextImplements == IInv /\ [Next]_vars => [CS!Next]_(CS!vars)
<1> SUFFICES ASSUME IInv, [Next]_vars PROVE [CS!Next]_(CS!vars)
  OBVIOUS
<1>1. TypeOK /\ Tiled /\ Phases /\ Chained /\ SpawnedClean
  BY DEF IInv
<1>2. ASSUME NEW c \in Clauses, Run(c) PROVE CS!Run(c)
  <2>1. PICK r \in ResultRegs[c] \cup {0} : StackPush(c, r)
    BY <1>2 DEF Run
  <2>2. r \in Nat
    BY ClauseAssumption
  <2>3. FrameLive /\ frame = NULL /\ base \in Blocks /\ status = "spawned"
    BY <1>1, <1>2 DEF Run, Phases, TypeOK, FrameLive
  <2>4. depth = 0
    BY <1>1, <2>3 DEF Phases, TypeOK
  <2>5. /\ Calls \in Seq(CallType) /\ Len(Calls) = depth
        /\ Calls' = Append(Calls, [clause |-> c, result |-> r])
    BY <2>1, <2>2, <2>3, PushIsEnter
  <2>6. Calls = << >>
    BY <2>4, <2>5, EmptySeq
  <2>7. Calls' = << [clause |-> c, result |-> r] >>
    BY <2>5, <2>6
  <2>8. Delivered' = Delivered
    BY <1>1, <1>2, <2>3 DEF Run, SpawnedClean, Delivered
  <2> QED
    BY <1>2, <2>3, <2>7, <2>8 DEF Run, CS!Run
<1>3. ASSUME NEW c \in Clauses, NEW r \in UNION {ResultRegs[d] : d \in Clauses},
             Call(c, r)
      PROVE  /\ r \in ResultRegs[CS!Innermost.clause]
             /\ CS!Enter(c, r)
  <2>1. /\ FrameLive /\ status = "running" /\ StackPush(c, r) /\ depth < MaxDepth
        /\ r \in ResultRegs[mem[frame.off].clause]
    BY <1>3 DEF Call
  <2>2. r \in Nat
    BY ClauseAssumption
  <2>3. base \in Blocks
    BY <2>1, <1>1 DEF Phases, TypeOK
  <2>4. Calls' = Append(Calls, [clause |-> c, result |-> r])
    BY <2>1, <2>2, <2>3, PushIsEnter
  <2>5. Len(Calls) = depth /\ Calls[depth] = CallOf(mem[frame.off])
    BY <2>1, InnermostIsTop
  <2>6. CS!Innermost.clause = mem[frame.off].clause
    BY <2>5 DEF CS!Innermost, CallOf
  <2>7. status' = status /\ Delivered' = NoDelivery
    BY <1>3 DEF Call, Delivered
  <2> QED
    BY <2>1, <2>4, <2>5, <2>6, <2>7 DEF CS!Enter
<1>4. ASSUME NEW a \in UNION {ReturnRegs[d] : d \in Clauses}, Return(a)
      PROVE  CS!Leave
  <2> DEFINE last == CallOf(mem[frame.off])
  <2>1. FrameLive /\ status = "running" /\ StackPop
    BY <1>4 DEF Return
  <2>2. /\ Calls' \in Seq(CallType) /\ Len(Calls') = depth'
        /\ depth' = depth - 1
        /\ Calls = Append(Calls', last)
    BY <2>1, PopIsLeave
  <2>3. /\ Calls \in Seq(CallType) /\ Len(Calls) = depth
        /\ Calls[depth] = last
    BY <2>1, InnermostIsTop
  <2>4. depth \in Nat /\ depth > 0
    BY <2>1, <1>1 DEF TypeOK, Phases
  <2>5. Calls' = SubSeq(Calls, 1, Len(Calls) - 1)
    <3>1. last \in CallType
      BY <2>3, <2>4
    <3>2. SubSeq(Append(Calls', last), 1, Len(Calls')) = Calls'
      BY <2>2, <3>1
    <3> QED
      BY <2>2, <2>3, <3>2
  <2>6. CS!Innermost.result = mem[frame.off].result
    BY <2>3 DEF CS!Innermost, CallOf
  <2>7. CASE depth = 1
    <3>1. status' = "returned" /\ target' = NULL
      BY <1>4, <2>2, <2>7 DEF Return
    <3>2. Delivered' = NoDelivery
      BY <3>1 DEF Delivered
    <3> QED
      BY <2>1, <2>3, <2>5, <2>7, <3>1, <3>2 DEF CS!Leave
  <2>8. CASE depth # 1
    <3>1. depth' # 0
      BY <2>2, <2>4, <2>8
    <3>2. status' = status /\ target' = Local(frame', mem[frame.off].result)
      BY <1>4, <3>1 DEF Return
    <3>3. Delivered' = [call |-> depth', reg |-> mem[frame.off].result]
      BY <2>1, <3>1, <3>2, DeliveredToCaller
    <3> QED
      BY <2>1, <2>2, <2>3, <2>5, <2>6, <2>8, <3>2, <3>3 DEF CS!Leave
  <2> QED
    BY <2>7, <2>8
<1>5. CASE UNCHANGED vars
  <2>1. mem' = mem /\ depth' = depth /\ target' = target /\ status' = status
    BY <1>5 DEF vars, stack
  <2>2. Calls' = Calls
    BY <2>1 DEF Calls, RankOf
  <2>3. Delivered' = Delivered
    BY <2>1 DEF Delivered, RankOf, EndOf
  <2> QED
    BY <2>1, <2>2, <2>3 DEF CS!vars
<1> QED
  BY <1>2, <1>3, <1>4, <1>5 DEF Next, CS!Next

\* The frames in memory implement the abstract call stack: calls nest, and a
\* RETURN hands its value to the register that the innermost caller's CALL
\* named, wherever the allocator puts the frames and whenever it moves them.
THEOREM RefinesCallStack == Spec => ImplementsCallStack
<1>1. Init => CS!Init
  BY InitImplements
<1>2. IInv /\ [Next]_vars => [CS!Next]_(CS!vars)
  BY NextImplements
<1> QED
  BY <1>1, <1>2, Invariance, PTL DEF Spec, ImplementsCallStack, CS!Spec
==============================================================================
