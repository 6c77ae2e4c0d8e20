---------------------------- MODULE BlockProofs ----------------------------
(***************************************************************************)
(* What the blocks of commands hold, for any number of blocks, cells,      *)
(* commands and roles.  The block command table: type correctness, no      *)
(* holes in a block, rotation within a block, and uploads that arrive      *)
(* whole.  The telemetry manager, which writes into blocks by a plan of    *)
(* its own: its table, the blocks and the numbers of registered commands   *)
(* agree, and the blocks send what was registered.                         *)
(***************************************************************************)
EXTENDS BlockCommandTable, TelemetryManager, CommonLemmas

\* Where the ground's position is while a block is loaded on board: stored.
GroundPos == IF pc = "load" THEN stored ELSE pos

\* UploadIsWhole, and what it becomes while a block is loaded: the load is in another
\* block than the upload.
UploadInv ==
    upload # NoUpload =>
        /\ GroundPos = [block |-> upload.block, cmd |-> Len(upload.cmds)]
        /\ pc = "load" => pos.block # upload.block
        /\ length[upload.block] = Len(upload.cmds)
        /\ \A i \in DOMAIN upload.cmds : cells[upload.block][i - 1] = upload.cmds[i]

Inv == TypeOK /\ NoHoles /\ RotatorInRange /\ UploadInv

-----------------------------------------------------------------------------
(***************************************************************************)
(* The registration, shared by the ground, the loader and FILL_NOP.        *)
(***************************************************************************)
\* A registration writes inside the array and moves the position on by one.
WrittenEffect(cmd) ==
    /\ pos.block \in Blocks /\ pos.cmd \in Cells /\ pos.cmd \in Nat /\ pos.cmd <= length[pos.block]
    /\ pos' = [block |-> pos.block, cmd |-> pos.cmd + 1] /\ pos' \in Positions
    /\ cells' \in [Blocks -> [Cells -> Cmds]]
    /\ cells'[pos.block] = [cells[pos.block] EXCEPT ![pos.cmd] = cmd]
    /\ length' \in [Blocks -> 0..MaxCmds]
    /\ length'[pos.block] = IF length[pos.block] < pos.cmd + 1 THEN pos.cmd + 1
                                                               ELSE length[pos.block]
    /\ written' \in [Blocks -> SUBSET Cells]
    /\ written'[pos.block] = written[pos.block] \cup {pos.cmd}
    /\ \A b \in Blocks \ {pos.block} :
          length'[b] = length[b] /\ cells'[b] = cells[b] /\ written'[b] = written[b]

\* A written command changes the current block only, and keeps the types.
LEMMA WrittenType ==
    ASSUME TypeOK, MayRegister, NEW cmd \in Cmds, Written(cmd)
    PROVE  WrittenEffect(cmd)
<1>1. MaxCmds \in Nat
  BY TableAssumption
<1>2. pos.block \in Blocks /\ pos.cmd \in 0..MaxCmds /\ pos = [block |-> pos.block, cmd |-> pos.cmd]
  BY DEF TypeOK, Positions
<1>3. pos.cmd \in Cells /\ pos.cmd \in Nat /\ pos.cmd + 1 \in 0..MaxCmds /\ pos.cmd <= length[pos.block]
  BY <1>1, <1>2 DEF MayRegister, Cells
<1>4. pos' = [block |-> pos.block, cmd |-> pos.cmd + 1]
  BY <1>2 DEF Written
<1>5. /\ cells' \in [Blocks -> [Cells -> Cmds]]
      /\ cells'[pos.block] = [cells[pos.block] EXCEPT ![pos.cmd] = cmd]
      /\ \A b \in Blocks \ {pos.block} : cells'[b] = cells[b]
  <2>1. cells' = [cells EXCEPT ![pos.block] = [cells[pos.block] EXCEPT ![pos.cmd] = cmd]]
    BY DEF Written
  <2>2. cells \in [Blocks -> [Cells -> Cmds]]
    BY DEF TypeOK
  <2>3. [cells[pos.block] EXCEPT ![pos.cmd] = cmd] \in [Cells -> Cmds]
    BY <1>2, <1>3, <2>2
  <2> QED
    BY <1>2, <2>1, <2>2, <2>3
<1>6. /\ length' \in [Blocks -> 0..MaxCmds]
      /\ length'[pos.block] = IF length[pos.block] < pos.cmd + 1 THEN pos.cmd + 1
                                                                 ELSE length[pos.block]
      /\ \A b \in Blocks \ {pos.block} : length'[b] = length[b]
  <2>1. length' = [length EXCEPT ![pos.block] =
                      IF length[pos.block] < pos.cmd + 1 THEN pos.cmd + 1 ELSE length[pos.block]]
    BY DEF Written
  <2>2. length \in [Blocks -> 0..MaxCmds]
    BY DEF TypeOK
  <2> QED
    BY <1>2, <1>3, <2>1, <2>2
<1>7. /\ written' \in [Blocks -> SUBSET Cells]
      /\ written'[pos.block] = written[pos.block] \cup {pos.cmd}
      /\ \A b \in Blocks \ {pos.block} : written'[b] = written[b]
  <2>1. written' = [written EXCEPT ![pos.block] = written[pos.block] \cup {pos.cmd}]
    BY DEF Written
  <2>2. written \in [Blocks -> SUBSET Cells]
    BY DEF TypeOK
  <2> QED
    BY <1>2, <1>3, <2>1, <2>2
<1> QED
  BY <1>2, <1>3, <1>4, <1>5, <1>6, <1>7 DEF Positions, WrittenEffect

\* It leaves no hole, because the position was not behind the end.
LEMMA WrittenNoHoles ==
    ASSUME TypeOK, NoHoles, MayRegister, NEW cmd \in Cmds, Written(cmd)
    PROVE  NoHoles'
<1> SUFFICES ASSUME NEW b \in Blocks, NEW i \in Cells, i < length'[b]
             PROVE  i \in written'[b]
  BY DEF NoHoles
<1>1. WrittenEffect(cmd)
  BY WrittenType
<1>2. length \in [Blocks -> 0..MaxCmds] /\ MaxCmds \in Nat /\ i \in Nat
  BY TableAssumption DEF TypeOK, Cells
<1>3. CASE b # pos.block
  BY <1>1, <1>3 DEF NoHoles, WrittenEffect
<1>4. CASE b = pos.block
  <2>1. i < length[pos.block] \/ i = pos.cmd
    <3>1. length[pos.block] \in Nat /\ pos.cmd \in Nat /\ pos.cmd <= length[pos.block]
      BY <1>1, <1>2 DEF WrittenEffect
    <3>2. i < IF length[pos.block] < pos.cmd + 1 THEN pos.cmd + 1 ELSE length[pos.block]
      BY <1>1, <1>4 DEF WrittenEffect
    <3> QED
      BY <1>2, <3>1, <3>2
  <2>2. written'[b] = written[b] \cup {pos.cmd}
    BY <1>1, <1>4 DEF WrittenEffect
  <2> QED
    BY <1>4, <2>1, <2>2 DEF NoHoles
<1> QED
  BY <1>3, <1>4

\* It never shortens a block, so the rotators stay in range.
LEMMA WrittenInRange ==
    ASSUME TypeOK, RotatorInRange, MayRegister, NEW cmd \in Cmds, Written(cmd), UNCHANGED rotate
    PROVE  RotatorInRange'
<1> SUFFICES ASSUME NEW b \in Blocks
             PROVE  rotate[b].next < length'[b] \/ rotate[b].next = 0
  BY DEF RotatorInRange
<1>1. WrittenEffect(cmd)
  BY WrittenType
<1>2. length \in [Blocks -> 0..MaxCmds] /\ MaxCmds \in Nat
  BY TableAssumption DEF TypeOK
<1>3. rotate[b].next \in Nat
  BY TableAssumption DEF TypeOK, Cells
<1>4. length'[b] >= length[b] /\ length'[b] \in Nat
  BY <1>1, <1>2 DEF WrittenEffect
<1> QED
  BY <1>2, <1>3, <1>4 DEF RotatorInRange

\* A registration into the block that is uploaded, at the position behind the upload,
\* appends to the upload.
LEMMA WrittenUpload ==
    ASSUME TypeOK, UploadInv, pc # "load", pc' # "load", MayRegister, NEW cmd \in Cmds, Written(cmd),
           upload' = Extended(cmd)
    PROVE  UploadInv' /\ upload' \in [block : Blocks, cmds : Seq(Cmds)] \cup {NoUpload}
<1>1. CASE upload = NoUpload
  BY <1>1 DEF UploadInv, Uploading, Extended
<1>2. CASE upload # NoUpload
  <2> DEFINE u == upload.block
             n == Len(upload.cmds)
  <2>1. upload \in [block : Blocks, cmds : Seq(Cmds)] /\ upload.cmds \in Seq(Cmds) /\ n \in Nat
    BY <1>2 DEF TypeOK
  <2>2. pos = [block |-> u, cmd |-> n] /\ pos.block = u /\ pos.cmd = n
    BY <1>2 DEF UploadInv, GroundPos
  <2>3. upload' = [block |-> u, cmds |-> Append(upload.cmds, cmd)]
    BY <1>2, <2>2 DEF Extended, Uploading
  <2>4. /\ upload'.block = u /\ upload'.cmds = Append(upload.cmds, cmd)
        /\ upload' \in [block : Blocks, cmds : Seq(Cmds)]
    BY <2>1, <2>3
  <2>5. Len(upload'.cmds) = n + 1 /\ DOMAIN upload'.cmds = 1..(n + 1)
    BY <2>1, <2>4
  <2>6. WrittenEffect(cmd)
    BY WrittenType
  <2>7. pos' = [block |-> upload'.block, cmd |-> Len(upload'.cmds)]
    BY <2>2, <2>4, <2>5, <2>6 DEF WrittenEffect
  <2>8. length[u] = n /\ \A i \in 1..n : cells[u][i - 1] = upload.cmds[i]
    BY <1>2, <2>1 DEF UploadInv
  <2>9. length'[u] = n + 1
    BY <2>1, <2>2, <2>6, <2>8 DEF WrittenEffect
  <2>10. cells \in [Blocks -> [Cells -> Cmds]] /\ u \in Blocks
    BY <2>1 DEF TypeOK
  <2>11. cells'[u] = [cells[u] EXCEPT ![n] = cmd] /\ n \in Cells
    BY <2>2, <2>6 DEF WrittenEffect
  <2>12. ASSUME NEW i \in 1..(n + 1)
         PROVE  cells'[u][i - 1] = upload'.cmds[i]
    <3>1. CASE i = n + 1
      BY <2>1, <2>4, <2>10, <2>11, <3>1
    <3>2. CASE i \in 1..n
      <4>1. upload'.cmds[i] = upload.cmds[i]
        BY <2>1, <2>4, <3>2
      <4>2. i - 1 \in Cells /\ i - 1 # n
        BY <2>1, <2>11, <3>2, TableAssumption DEF Cells
      <4> QED
        BY <2>8, <2>10, <2>11, <3>2, <4>1, <4>2
    <3> QED
      BY <2>1, <3>1, <3>2
  <2> QED
    BY <2>4, <2>5, <2>7, <2>9, <2>12 DEF UploadInv, GroundPos
<1> QED
  BY <1>1, <1>2

-----------------------------------------------------------------------------
(***************************************************************************)
(* What clearing a block does to the position and the execution states.    *)
(***************************************************************************)
Rotators == [counter : Nat, interval : 1..MaxInterval, next : Cells]

\* A rotator that was reset is one.
LEMMA ResetRotatorType == ResetRotator \in Rotators /\ ResetRotator.next = 0
  BY TableAssumption DEF ResetRotator, Rotator, Rotators, Cells

ClearedEffect(b) ==
    /\ pos' = [block |-> b, cmd |-> 0] /\ pos' \in Positions
    /\ active' \in [Blocks -> BOOLEAN]
    /\ rotate' \in [Blocks -> Rotators]
    /\ rotate'[b].next = 0
    /\ \A c \in Blocks \ {b} : rotate'[c] = rotate[c]

\* Clearing a block resets its rotator and no other.
LEMMA ClearedType ==
    ASSUME TypeOK, NEW b \in Blocks, Cleared(b)
    PROVE  ClearedEffect(b)
<1>1. pos' = [block |-> b, cmd |-> 0] /\ pos' \in Positions
  BY TableAssumption DEF Cleared, Positions
<1>2. active' \in [Blocks -> BOOLEAN]
  BY DEF Cleared, TypeOK
<1>3. /\ rotate' \in [Blocks -> Rotators] /\ rotate'[b].next = 0
      /\ \A c \in Blocks \ {b} : rotate'[c] = rotate[c]
  <2>1. rotate' = [rotate EXCEPT ![b] = ResetRotator]
    BY DEF Cleared, ClearedRotator
  <2>2. rotate \in [Blocks -> Rotators]
    BY DEF TypeOK, Rotators
  <2> QED
    BY <2>1, <2>2, ResetRotatorType
<1> QED
  BY <1>1, <1>2, <1>3 DEF ClearedEffect

-----------------------------------------------------------------------------
(***************************************************************************)
(* The steps.                                                              *)
(***************************************************************************)
\* Activation, deactivation, the begin and the end of FILL_NOP and the division by zero
\* leave positions, contents and rotators alone.
LEMMA StatusStep ==
    ASSUME Inv, UNCHANGED <<pos, stored, cells, length, written, rotate, upload>>,
           pc # "load", pc' \in {"idle", "fill"}, active' \in [Blocks -> BOOLEAN],
           todo' \in Seq(Cmds), undef' \in BOOLEAN
    PROVE  Inv'
<1>1. TypeOK'
  BY DEF Inv, TypeOK, Positions
<1>2. NoHoles' /\ RotatorInRange'
  BY DEF Inv, NoHoles, RotatorInRange
<1>3. GroundPos' = GroundPos /\ pc' # "load"
  BY DEF GroundPos
<1>4. UploadInv'
  BY <1>3 DEF Inv, UploadInv
<1> QED
  BY <1>1, <1>2, <1>4 DEF Inv

\* A rotator may change to one that stays within its block.
LEMMA RotatorStep ==
    ASSUME Inv, NEW b \in Blocks, NEW r \in Rotators, RotatorsSet(b, r), UNCHANGED undef,
           r.next < length[b] \/ r.next = 0
    PROVE  Inv'
<1>1. /\ UNCHANGED <<pos, stored, cells, length, written, active, pc, todo, upload, undef>>
      /\ rotate' = [rotate EXCEPT ![b] = r] /\ rotate \in [Blocks -> Rotators]
  BY DEF RotatorsSet, contents, job, Inv, TypeOK, Rotators
<1>2. rotate' \in [Blocks -> Rotators] /\ rotate'[b] = r
      /\ \A c \in Blocks \ {b} : rotate'[c] = rotate[c]
  BY <1>1
<1>3. TypeOK'
  BY <1>1, <1>2 DEF Inv, TypeOK, Rotators, Positions
<1>4. NoHoles'
  BY <1>1 DEF Inv, NoHoles
<1>5. RotatorInRange'
  BY <1>1, <1>2 DEF Inv, RotatorInRange
<1>6. GroundPos' = GroundPos
  BY <1>1 DEF GroundPos
<1>7. UploadInv'
  BY <1>1, <1>6 DEF Inv, UploadInv
<1> QED
  BY <1>3, <1>4, <1>5, <1>7 DEF Inv

\* A rotation goes on to a command of the block.
LEMMA RotateStep ==
    ASSUME Inv, NEW b \in Blocks, RotateSkip(b) \/ Rotate(b)
    PROVE  Inv'
<1>1. /\ rotate[b].counter \in Nat /\ rotate[b].interval \in 1..MaxInterval
      /\ rotate[b].next \in Cells
  BY DEF Inv, TypeOK
<1>2. length[b] \in 0..MaxCmds /\ MaxCmds \in Nat
  BY TableAssumption DEF Inv, TypeOK
<1>3. CASE RotateSkip(b)
  <2> DEFINE r == Rotator(rotate[b].counter + 1, rotate[b].interval, rotate[b].next)
  <2>1. r \in Rotators /\ r.next = rotate[b].next
    BY <1>1 DEF Rotator, Rotators
  <2>2. RotatorsSet(b, r) /\ UNCHANGED undef
    BY <1>3 DEF RotateSkip
  <2>3. r.next < length[b] \/ r.next = 0
    BY <2>1 DEF Inv, RotatorInRange
  <2> HIDE DEF r
  <2> QED
    BY <2>1, <2>2, <2>3, RotatorStep
<1>4. CASE Rotate(b)
  <2> DEFINE r == Rotator(0, rotate[b].interval, NextCmd(b))
  <2>1. length[b] > 0
    BY <1>4 DEF Rotate
  <2>2. NextCmd(b) \in 0..(length[b] - 1)
    BY <1>1, <1>2, <2>1 DEF NextCmd, Cells
  <2>3. NextCmd(b) \in Cells /\ NextCmd(b) < length[b]
    BY <1>2, <2>2 DEF Cells
  <2>4. r \in Rotators /\ r.next = NextCmd(b)
    BY <1>1, <2>3 DEF Rotator, Rotators
  <2>5. RotatorsSet(b, r) /\ UNCHANGED undef
    BY <1>4 DEF Rotate
  <2> HIDE DEF r
  <2> QED
    BY <2>3, <2>4, <2>5, RotatorStep
<1> QED
  BY <1>3, <1>4

\* Setting the interval or resetting the rotator keeps it within the block.
LEMMA RotatorCommandStep ==
    ASSUME Inv, NEW b \in Blocks,
           ResetRotatorInfo(b) \/ \E n \in 1..MaxInterval : SetRotateInterval(b, n)
    PROVE  Inv'
<1>1. CASE ResetRotatorInfo(b)
  BY <1>1, RotatorStep, ResetRotatorType DEF ResetRotatorInfo
<1>2. ASSUME NEW n \in 1..MaxInterval, SetRotateInterval(b, n)
      PROVE  Inv'
  <2> DEFINE r == Rotator(rotate[b].counter, n, rotate[b].next)
  <2>1. rotate[b].counter \in Nat /\ rotate[b].next \in Cells
    BY DEF Inv, TypeOK
  <2>2. r \in Rotators /\ r.next = rotate[b].next
    BY <2>1 DEF Rotator, Rotators
  <2>3. RotatorsSet(b, r) /\ UNCHANGED undef
    BY <1>2 DEF SetRotateInterval
  <2>4. r.next < length[b] \/ r.next = 0
    BY <2>2 DEF Inv, RotatorInRange
  <2> HIDE DEF r
  <2> QED
    BY <2>2, <2>3, <2>4, RotatorStep
<1> QED
  BY <1>1, <1>2

\* The block is empty after it was cleared, and the upload begins.
LEMMA ClearBlockStep ==
    ASSUME Inv, NEW b \in Blocks, ClearBlock(b)
    PROVE  Inv'
<1>1. /\ UNCHANGED <<stored, cells, pc, todo, undef>> /\ pc = "idle"
      /\ length' = [length EXCEPT ![b] = 0] /\ written' = [written EXCEPT ![b] = {}]
      /\ upload' = [block |-> b, cmds |-> <<>>]
  BY DEF ClearBlock, Idle, job
<1>2. ClearedEffect(b)
  BY ClearedType DEF ClearBlock, Inv
<1>3. /\ length \in [Blocks -> 0..MaxCmds] /\ written \in [Blocks -> SUBSET Cells]
      /\ MaxCmds \in Nat
  BY TableAssumption DEF Inv, TypeOK
<1>4. /\ length' \in [Blocks -> 0..MaxCmds] /\ written' \in [Blocks -> SUBSET Cells]
      /\ length'[b] = 0
      /\ \A c \in Blocks \ {b} : length'[c] = length[c] /\ written'[c] = written[c]
  BY <1>1, <1>3
<1>5. TypeOK'
  <2>1. upload' \in [block : Blocks, cmds : Seq(Cmds)]
    BY <1>1
  <2> QED
    BY <1>1, <1>2, <1>4, <2>1 DEF Inv, TypeOK, ClearedEffect, Rotators, Positions
<1>6. NoHoles'
  BY <1>4 DEF Inv, NoHoles, Cells
<1>7. RotatorInRange'
  BY <1>2, <1>4 DEF Inv, RotatorInRange, ClearedEffect
<1>8. UploadInv'
  <2>1. GroundPos' = [block |-> b, cmd |-> 0]
    BY <1>1, <1>2 DEF GroundPos, ClearedEffect
  <2>2. Len(upload'.cmds) = 0 /\ DOMAIN upload'.cmds = {} /\ upload'.block = b
    BY <1>1
  <2> QED
    BY <1>1, <1>4, <2>1, <2>2 DEF UploadInv
<1> QED
  BY <1>5, <1>6, <1>7, <1>8 DEF Inv

\* The ground gives up its upload when it moves the position.
LEMMA SetPositionStep ==
    ASSUME Inv, NEW b \in Blocks, NEW i \in Cells, SetPosition(b, i)
    PROVE  Inv'
<1>1. /\ UNCHANGED <<stored, cells, length, written, active, rotate, pc, todo, undef>>
      /\ pos' = [block |-> b, cmd |-> i] /\ upload' = NoUpload
  BY DEF SetPosition, contents, exec, job
<1>2. pos' \in Positions
  BY <1>1, TableAssumption DEF Positions, Cells
<1>3. TypeOK'
  BY <1>1, <1>2 DEF Inv, TypeOK, Positions
<1>4. NoHoles' /\ RotatorInRange'
  BY <1>1 DEF Inv, NoHoles, RotatorInRange
<1>5. UploadInv'
  BY <1>1 DEF UploadInv
<1> QED
  BY <1>3, <1>4, <1>5 DEF Inv

\* A command of the ground is appended to the upload, if it belongs to one.
LEMMA RegisterStep ==
    ASSUME Inv, NEW cmd \in Cmds, Register(cmd)
    PROVE  Inv'
<1>1. /\ UNCHANGED <<stored, active, rotate, pc, todo, undef>> /\ pc = "idle"
      /\ MayRegister /\ Written(cmd) /\ upload' = Extended(cmd)
  BY DEF Register, Idle, exec, job
<1>2. WrittenEffect(cmd)
  BY <1>1, WrittenType DEF Inv
<1>3. UploadInv' /\ upload' \in [block : Blocks, cmds : Seq(Cmds)] \cup {NoUpload}
  BY <1>1, WrittenUpload DEF Inv
<1>4. TypeOK'
  BY <1>1, <1>2, <1>3 DEF Inv, TypeOK, WrittenEffect, Positions
<1>5. NoHoles' /\ RotatorInRange'
  BY <1>1, WrittenNoHoles, WrittenInRange DEF Inv
<1> QED
  BY <1>3, <1>4, <1>5 DEF Inv

\* Overwriting a command of the block that is uploaded ends the upload.
LEMMA OverwriteStep ==
    ASSUME Inv, NEW b \in Blocks, NEW i \in Cells, NEW cmd \in Cmds, Overwrite(b, i, cmd)
    PROVE  Inv'
<1>1. /\ UNCHANGED <<pos, stored, length, active, rotate, pc, todo, undef>> /\ pc = "idle"
      /\ cells' = [cells EXCEPT ![b] = [cells[b] EXCEPT ![i] = cmd]]
      /\ written' = [written EXCEPT ![b] = written[b] \cup {i}]
      /\ upload' = IF Uploading(b) THEN NoUpload ELSE upload
  BY DEF Overwrite, EndUpload, Idle, exec, job
<1>2. cells \in [Blocks -> [Cells -> Cmds]] /\ written \in [Blocks -> SUBSET Cells]
  BY DEF Inv, TypeOK
<1>3. [cells[b] EXCEPT ![i] = cmd] \in [Cells -> Cmds]
  BY <1>2
<1>4. /\ cells' \in [Blocks -> [Cells -> Cmds]]
      /\ \A c \in Blocks \ {b} : cells'[c] = cells[c]
  BY <1>1, <1>2, <1>3
<1>5. /\ written' \in [Blocks -> SUBSET Cells]
      /\ \A c \in Blocks : written[c] \subseteq written'[c]
  BY <1>1, <1>2
<1>6. TypeOK'
  BY <1>1, <1>4, <1>5 DEF Inv, TypeOK, Positions
<1>7. NoHoles'
  BY <1>1, <1>5 DEF Inv, NoHoles
<1>8. RotatorInRange'
  BY <1>1 DEF Inv, RotatorInRange
<1>9. UploadInv'
  <2>1. CASE upload' = NoUpload
    BY <2>1 DEF UploadInv
  <2>2. CASE upload' # NoUpload
    <3>1. upload' = upload /\ upload # NoUpload /\ upload.block # b /\ upload.block \in Blocks
      BY <1>1, <2>2 DEF Uploading, Inv, TypeOK
    <3>2. GroundPos' = GroundPos /\ cells'[upload.block] = cells[upload.block]
      BY <1>1, <1>4, <3>1 DEF GroundPos
    <3> QED
      BY <1>1, <3>1, <3>2 DEF Inv, UploadInv
  <2> QED
    BY <2>1, <2>2
<1> QED
  BY <1>6, <1>7, <1>8, <1>9 DEF Inv

\* A copy has as many commands, all written, as its source; its rotator is reset.
LEMMA CopyStep ==
    ASSUME Inv, NEW dst \in Blocks, NEW src \in Blocks, Copy(dst, src)
    PROVE  Inv'
<1> DEFINE copied == [i \in Cells |-> IF i < length[src] THEN cells[src][i] ELSE cells[dst][i]]
           len == IF dst = src THEN 0 ELSE length[src]
           wrote == IF dst = src THEN {} ELSE {i \in written[src] : i < length[src]}
<1>1. /\ UNCHANGED <<stored, pc, todo, undef>> /\ pc = "idle" /\ upload' = NoUpload
      /\ cells' = [cells EXCEPT ![dst] = copied]
      /\ length' = [length EXCEPT ![dst] = len]
      /\ written' = [written EXCEPT ![dst] = wrote]
  BY DEF Copy, Idle, job
<1>2. ClearedEffect(dst)
  BY ClearedType DEF Copy, Inv
<1>3. /\ cells \in [Blocks -> [Cells -> Cmds]] /\ length \in [Blocks -> 0..MaxCmds]
      /\ written \in [Blocks -> SUBSET Cells] /\ MaxCmds \in Nat
  BY TableAssumption DEF Inv, TypeOK
<1>4. copied \in [Cells -> Cmds] /\ len \in 0..MaxCmds /\ wrote \in SUBSET Cells
  BY <1>3
<1>5. \A i \in Cells : i < len => i \in wrote
  BY <1>3 DEF Inv, NoHoles, Cells
<1> HIDE DEF copied, len, wrote
<1>6. /\ cells' \in [Blocks -> [Cells -> Cmds]] /\ length' \in [Blocks -> 0..MaxCmds]
      /\ written' \in [Blocks -> SUBSET Cells]
      /\ length'[dst] = len /\ written'[dst] = wrote
      /\ \A c \in Blocks \ {dst} : length'[c] = length[c] /\ written'[c] = written[c]
  BY <1>1, <1>3, <1>4
<1>7. TypeOK'
  BY <1>1, <1>2, <1>6 DEF Inv, TypeOK, ClearedEffect, Rotators, Positions
<1>8. NoHoles'
  BY <1>5, <1>6 DEF Inv, NoHoles
<1>9. RotatorInRange'
  BY <1>2, <1>6 DEF Inv, RotatorInRange, ClearedEffect
<1>10. UploadInv'
  BY <1>1 DEF UploadInv
<1> QED
  BY <1>7, <1>8, <1>9, <1>10 DEF Inv

\* Swapping exchanges contents and rotators together.
LEMMA SwapStep ==
    ASSUME Inv, NEW a \in Blocks, NEW b \in Blocks, Swap(a, b)
    PROVE  Inv'
<1> DEFINE other(c) == IF c = a THEN b ELSE IF c = b THEN a ELSE c
<1>1. /\ UNCHANGED <<pos, stored, active, pc, todo, undef>> /\ pc = "idle" /\ upload' = NoUpload
      /\ cells' = [c \in Blocks |-> cells[other(c)]]
      /\ length' = [c \in Blocks |-> length[other(c)]]
      /\ rotate' = [c \in Blocks |-> rotate[other(c)]]
      /\ written' = [c \in Blocks |-> written[other(c)]]
  BY DEF Swap, Idle, job
<1>2. \A c \in Blocks : other(c) \in Blocks
  OBVIOUS
<1> HIDE DEF other
<1>3. /\ cells \in [Blocks -> [Cells -> Cmds]] /\ length \in [Blocks -> 0..MaxCmds]
      /\ written \in [Blocks -> SUBSET Cells] /\ rotate \in [Blocks -> Rotators]
  BY DEF Inv, TypeOK, Rotators
<1>4. /\ cells' \in [Blocks -> [Cells -> Cmds]] /\ length' \in [Blocks -> 0..MaxCmds]
      /\ written' \in [Blocks -> SUBSET Cells] /\ rotate' \in [Blocks -> Rotators]
  BY <1>1, <1>2, <1>3
<1>5. TypeOK'
  BY <1>1, <1>4 DEF Inv, TypeOK, Rotators, Positions
<1>6. NoHoles'
  BY <1>1, <1>2 DEF Inv, NoHoles
<1>7. RotatorInRange'
  BY <1>1, <1>2 DEF Inv, RotatorInRange
<1>8. UploadInv'
  BY <1>1 DEF UploadInv
<1> QED
  BY <1>5, <1>6, <1>7, <1>8 DEF Inv

\* Loading a block on board stores the position of the ground and ends only the upload of
\* that block.
LEMMA LoadBeginStep ==
    ASSUME Inv, NEW load \in Loads, LoadBegin(load)
    PROVE  Inv'
<1> DEFINE b == load.block
<1>1. b \in Blocks /\ load.cmds \in Seq(Cmds)
  BY TableAssumption
<1> HIDE DEF b
<1>2. /\ UNCHANGED <<cells, undef>> /\ pc = "idle" /\ pc' = "load" /\ todo' = load.cmds
      /\ stored' = pos
      /\ length' = [length EXCEPT ![b] = 0] /\ written' = [written EXCEPT ![b] = {}]
      /\ upload' = IF Uploading(b) THEN NoUpload ELSE upload
  BY DEF LoadBegin, StoredPos, EndUpload, Idle, b
<1>3. ClearedEffect(b)
  BY <1>1, ClearedType DEF LoadBegin, Inv, b
<1>4. /\ length \in [Blocks -> 0..MaxCmds] /\ written \in [Blocks -> SUBSET Cells]
      /\ MaxCmds \in Nat
  BY TableAssumption DEF Inv, TypeOK
<1>5. /\ length' \in [Blocks -> 0..MaxCmds] /\ written' \in [Blocks -> SUBSET Cells]
      /\ length'[b] = 0
      /\ \A c \in Blocks \ {b} : length'[c] = length[c] /\ written'[c] = written[c]
  BY <1>1, <1>2, <1>4
<1>6. TypeOK'
  BY <1>1, <1>2, <1>3, <1>5 DEF Inv, TypeOK, ClearedEffect, Rotators, Positions
<1>7. NoHoles'
  BY <1>5 DEF Inv, NoHoles, Cells
<1>8. RotatorInRange'
  BY <1>3, <1>5 DEF Inv, RotatorInRange, ClearedEffect
<1>9. UploadInv'
  <2>1. CASE upload' = NoUpload
    BY <2>1 DEF UploadInv
  <2>2. CASE upload' # NoUpload
    <3>1. upload' = upload /\ upload # NoUpload /\ upload.block # b /\ upload.block \in Blocks
      BY <1>2, <2>2 DEF Uploading, Inv, TypeOK
    <3>2. GroundPos' = GroundPos /\ pos'.block = b
      BY <1>2, <1>3 DEF GroundPos, ClearedEffect
    <3>3. length'[upload.block] = length[upload.block]
      BY <1>5, <3>1
    <3> QED
      BY <1>2, <3>1, <3>2, <3>3 DEF Inv, UploadInv
  <2> QED
    BY <2>1, <2>2
<1> QED
  BY <1>6, <1>7, <1>8, <1>9 DEF Inv

\* At its end the position is restored.
LEMMA LoadEndStep ==
    ASSUME Inv, LoadEnd
    PROVE  Inv'
<1>1. /\ UNCHANGED <<stored, cells, length, written, rotate, todo, undef, upload>>
      /\ pc = "load" /\ pc' = "idle" /\ pos' = stored
      /\ active' = IF length[pos.block] = pos.cmd THEN [active EXCEPT ![pos.block] = TRUE] ELSE active
  BY DEF LoadEnd, contents
<1>2. active' \in [Blocks -> BOOLEAN]
  BY <1>1 DEF Inv, TypeOK
<1>3. TypeOK'
  BY <1>1, <1>2 DEF Inv, TypeOK, Positions
<1>4. NoHoles' /\ RotatorInRange'
  BY <1>1 DEF Inv, NoHoles, RotatorInRange
<1>5. GroundPos' = GroundPos
  BY <1>1 DEF GroundPos
<1>6. UploadInv'
  BY <1>1, <1>5 DEF Inv, UploadInv
<1> QED
  BY <1>3, <1>4, <1>6 DEF Inv

\* A registration on board goes into another block than the upload; one of FILL_NOP is
\* part of it.
LEMMA RegisterNextStep ==
    ASSUME Inv, RegisterNext
    PROVE  Inv'
<1> DEFINE cmd == Head(todo)
<1>1. /\ UNCHANGED <<stored, active, rotate, pc, undef>> /\ pc \in {"load", "fill"}
      /\ todo # <<>> /\ todo' = Tail(todo)
      /\ IF MayRegister THEN Written(cmd) ELSE UNCHANGED <<pos, cells, length, written>>
      /\ upload' = IF pc = "fill" /\ MayRegister THEN Extended(cmd) ELSE upload
  BY DEF RegisterNext, exec, contents, Inv, TypeOK
<1>2. cmd \in Cmds /\ todo' \in Seq(Cmds)
  <2>1. todo \in Seq(Cmds) /\ todo # <<>>
    BY <1>1 DEF Inv, TypeOK
  <2> QED
    BY <1>1, <2>1
<1> HIDE DEF cmd
<1>3. CASE ~MayRegister
  <2>1. UNCHANGED <<pos, cells, length, written, upload>>
    BY <1>1, <1>3
  <2>2. TypeOK'
    BY <1>1, <1>2, <2>1 DEF Inv, TypeOK, Positions
  <2>3. NoHoles' /\ RotatorInRange'
    BY <1>1, <2>1 DEF Inv, NoHoles, RotatorInRange
  <2>4. GroundPos' = GroundPos
    BY <1>1, <2>1 DEF GroundPos
  <2>5. UploadInv'
    BY <1>1, <2>1, <2>4 DEF Inv, UploadInv
  <2> QED
    BY <2>2, <2>3, <2>5 DEF Inv
<1>4. CASE MayRegister
  <2>1. Written(cmd)
    BY <1>1, <1>4
  <2>2. WrittenEffect(cmd)
    BY <1>2, <1>4, <2>1, WrittenType DEF Inv
  <2>3. UploadInv' /\ upload' \in [block : Blocks, cmds : Seq(Cmds)] \cup {NoUpload}
    <3>1. CASE pc = "fill"
      BY <1>1, <1>2, <1>4, <2>1, <3>1, WrittenUpload DEF Inv
    <3>2. CASE pc = "load"
      <4>1. upload' = upload /\ pc' = "load" /\ UNCHANGED stored
        BY <1>1, <3>2
      <4>2. upload' \in [block : Blocks, cmds : Seq(Cmds)] \cup {NoUpload}
        BY <4>1 DEF Inv, TypeOK
      <4>3. CASE upload = NoUpload
        BY <4>1, <4>2, <4>3 DEF UploadInv
      <4>4. CASE upload # NoUpload
        <5>1. upload.block \in Blocks /\ upload.block # pos.block
          BY <3>2, <4>4 DEF Inv, TypeOK, UploadInv
        <5>2. length'[upload.block] = length[upload.block] /\ cells'[upload.block] = cells[upload.block]
          BY <2>2, <5>1 DEF WrittenEffect
        <5>3. GroundPos' = GroundPos /\ pos'.block = pos.block
          BY <2>2, <3>2, <4>1 DEF GroundPos, WrittenEffect
        <5> QED
          BY <4>1, <4>2, <4>4, <5>1, <5>2, <5>3 DEF Inv, UploadInv
      <4> QED
        BY <4>3, <4>4
    <3> QED
      BY <1>1, <3>1, <3>2
  <2>4. TypeOK'
    BY <1>1, <1>2, <2>2, <2>3 DEF Inv, TypeOK, WrittenEffect, Positions
  <2>5. NoHoles' /\ RotatorInRange'
    BY <1>1, <1>2, <1>4, <2>1, WrittenNoHoles, WrittenInRange DEF Inv
  <2> QED
    BY <2>3, <2>4, <2>5 DEF Inv
<1> QED
  BY <1>3, <1>4

\* The steps that change only activity and program counter.
LEMMA StatusSteps ==
    ASSUME Inv,
           \/ Activate \/ FillEnd \/ \E n \in 1..FillLength : FillBegin(n)
           \/ \E b \in Blocks : SetActive(b, TRUE) \/ SetActive(b, FALSE) \/ RotateEmpty(b)
    PROVE  Inv'
<1>1. active \in [Blocks -> BOOLEAN] /\ todo \in Seq(Cmds) /\ undef \in BOOLEAN
  BY DEF Inv, TypeOK
<1>2. CASE Activate
  BY <1>1, <1>2, StatusStep DEF Activate, Idle, contents, job
<1>3. CASE FillEnd
  BY <1>1, <1>3, StatusStep DEF FillEnd, contents, exec
<1>4. ASSUME NEW n \in 1..FillLength, FillBegin(n)
      PROVE  Inv'
  <2>1. [i \in 1..n |-> NOP] \in Seq(Cmds)
    BY TableAssumption
  <2> QED
    BY <1>1, <1>4, <2>1, StatusStep DEF FillBegin, Idle, contents, exec
<1>5. ASSUME NEW b \in Blocks, SetActive(b, TRUE) \/ SetActive(b, FALSE)
      PROVE  Inv'
  BY <1>1, <1>5, StatusStep DEF SetActive, Idle, contents, job
<1>6. ASSUME NEW b \in Blocks, RotateEmpty(b)
      PROVE  Inv'
  BY <1>1, <1>6, StatusStep DEF RotateEmpty, Idle, contents, exec, job
<1> QED
  BY <1>2, <1>3, <1>4, <1>5, <1>6

-----------------------------------------------------------------------------
(***************************************************************************)
(* The theorems.                                                           *)
(***************************************************************************)
\* After the initialization all blocks are empty and nothing is uploaded.
LEMMA Initially == Init => Inv
<1> SUFFICES ASSUME Init PROVE Inv
  OBVIOUS
<1>1. TypeOK
  <2>1. rotate \in [Blocks -> Rotators]
    BY ResetRotatorType DEF Init
  <2>2. pos \in Positions /\ stored \in Positions
    BY TableAssumption DEF Init, Positions
  <2>3. cells \in [Blocks -> [Cells -> Cmds]]
    BY TableAssumption DEF Init
  <2>4. /\ length \in [Blocks -> 0..MaxCmds] /\ active \in [Blocks -> BOOLEAN]
        /\ written \in [Blocks -> SUBSET Cells]
    BY TableAssumption DEF Init
  <2>5. pc = "idle" /\ todo = <<>> /\ undef \in BOOLEAN /\ upload = NoUpload
    BY DEF Init
  <2>6. todo \in Seq(Cmds)
    BY <2>5
  <2> QED
    BY <2>1, <2>2, <2>3, <2>4, <2>5, <2>6 DEF TypeOK, Rotators
<1>2. NoHoles
  BY DEF Init, NoHoles, Cells
<1>3. RotatorInRange
  BY ResetRotatorType DEF Init, RotatorInRange
<1>4. UploadInv
  BY DEF Init, UploadInv
<1> QED
  BY <1>1, <1>2, <1>3, <1>4 DEF Inv

\* Every step keeps the invariant.
LEMMA NextStep == Inv /\ [Next]_vars => Inv'
<1> SUFFICES ASSUME Inv, [Next]_vars PROVE Inv'
  OBVIOUS
<1>1. ASSUME NEW b \in Blocks, ClearBlock(b) PROVE Inv'
  BY <1>1, ClearBlockStep
<1>2. ASSUME NEW b \in Blocks, RotateSkip(b) \/ Rotate(b) PROVE Inv'
  BY <1>2, RotateStep
<1>3. ASSUME NEW b \in Blocks,
             ResetRotatorInfo(b) \/ \E n \in 1..MaxInterval : SetRotateInterval(b, n)
      PROVE  Inv'
  BY <1>3, RotatorCommandStep
<1>4. ASSUME \/ Activate \/ FillEnd \/ \E n \in 1..FillLength : FillBegin(n)
             \/ \E b \in Blocks : SetActive(b, TRUE) \/ SetActive(b, FALSE) \/ RotateEmpty(b)
      PROVE  Inv'
  BY <1>4, StatusSteps
<1>5. ASSUME NEW b \in Blocks, NEW i \in Cells, SetPosition(b, i) PROVE Inv'
  BY <1>5, SetPositionStep
<1>6. ASSUME NEW b \in Blocks, NEW i \in Cells, NEW cmd \in Cmds, Overwrite(b, i, cmd) PROVE Inv'
  BY <1>6, OverwriteStep
<1>7. ASSUME NEW b \in Blocks, NEW c \in Blocks, Copy(b, c) \/ Swap(b, c) PROVE Inv'
  BY <1>7, CopyStep, SwapStep
<1>8. ASSUME NEW cmd \in Cmds, Register(cmd) PROVE Inv'
  BY <1>8, RegisterStep
<1>9. ASSUME NEW load \in Loads, LoadBegin(load) PROVE Inv'
  BY <1>9, LoadBeginStep
<1>10. CASE RegisterNext \/ LoadEnd
  BY <1>10, RegisterNextStep, LoadEndStep
<1>11. CASE UNCHANGED vars
  <2>1. UNCHANGED <<pos, stored, cells, length, active, rotate, pc, todo, undef, written, upload>>
    BY <1>11 DEF vars
  <2>2. TypeOK' /\ NoHoles' /\ RotatorInRange'
    BY <2>1 DEF Inv, TypeOK, Positions, NoHoles, RotatorInRange
  <2>3. GroundPos' = GroundPos
    BY <2>1 DEF GroundPos
  <2> QED
    BY <2>1, <2>2, <2>3 DEF Inv, UploadInv
<1> QED
  BY <1>1, <1>2, <1>3, <1>4, <1>5, <1>6, <1>7, <1>8, <1>9, <1>10, <1>11 DEF Next

\* The invariant that joins the four properties holds in every behaviour.
THEOREM Invariance == Spec => []Inv
  BY Initially, NextStep, PTL DEF Spec

\* Positions, lengths and rotators stay within a block, whatever the ground sends.
THEOREM TypeCorrect == Spec => []TypeOK
<1>1. Inv => TypeOK
  BY DEF Inv
<1> QED
  BY <1>1, Invariance, PTL

\* No block ever has a hole.
THEOREM BlocksHaveNoHoles == Spec => []NoHoles
<1>1. Inv => NoHoles
  BY DEF Inv
<1> QED
  BY <1>1, Invariance, PTL

\* Rotation stays within the block.
THEOREM RotationStaysInRange == Spec => []RotatorInRange
<1>1. Inv => RotatorInRange
  BY DEF Inv
<1> QED
  BY <1>1, Invariance, PTL

\* Whatever is deployed or executed from a block was written into it since it was cleared.
THEOREM SoundBlocks == Spec => []BlocksAreSound
<1>1. Inv => BlocksAreSound
  BY DEF Inv, BlocksAreSound
<1> QED
  BY <1>1, Invariance, PTL

\* Uploads arrive whole, whatever is loaded on board between two of their commands.
THEOREM UploadsArriveWhole == Spec => []UploadIsWhole
<1>1. Inv => UploadIsWhole
  BY DEF Inv, UploadInv, UploadIsWhole, GroundPos
<1> QED
  BY <1>1, Invariance, PTL

-----------------------------------------------------------------------------
(***************************************************************************)
(* The telemetry manager: the log of the divided commands.                 *)
(***************************************************************************)
\* What the log of the divided commands can hold.
LogEntry == [code : Codes \cup {NoCode}, status : Statuses, counter : Nat]

\* A log of the right length that has no command twice.
IsLog(log) ==
    /\ log \in Seq(LogEntry) /\ Len(log) = LogMax
    /\ \A i, j \in 1..LogMax : i # j /\ log[i].code = log[j].code => log[i].code = NoCode

\* A log that has a command at its front and otherwise entries of the old one.
Turned(log, old, code) ==
    /\ IsLog(log) /\ log[1].code = code
    /\ \A i \in 2..LogMax : \E j \in 1..LogMax : log[i] = old[j] /\ old[j].code # code

\* The first place of a command in the log.
LEMMA PlaceFacts ==
  ASSUME NEW log, IsLog(log), NEW code
  PROVE  /\ PlaceInLog(log, code) \in 0..LogMax
         /\ PlaceInLog(log, code) # 0 => log[PlaceInLog(log, code)].code = code
         /\ PlaceInLog(log, code) = 0 => \A i \in 1..LogMax : log[i].code # code
<1> DEFINE I == {i \in 1..Len(log) : log[i].code = code}
<1>1. PlaceInLog(log, code) = IF I # {} THEN Min(I) ELSE 0
  BY DEF PlaceInLog, SelectInSeq
<1>2. LogMax \in Nat /\ Len(log) = LogMax
  BY DividedAssumption DEF IsLog
<1>3. I # {} => Min(I) \in I
  <2>1. I \in SUBSET Nat
    BY <1>2
  <2> QED BY <2>1, MinOfNats
<1> QED
  BY <1>1, <1>2, <1>3

\* A new entry is one of the log.
LEMMA NewEntryFacts ==
  ASSUME NEW code \in Codes \cup {NoCode}
  PROVE  /\ NewEntry(code) \in LogEntry /\ NewEntry(code).code = code
         /\ NewEntry(code).status = "FINISHED" /\ NewEntry(code).counter = 0
BY DEF NewEntry, Entry, LogEntry, Statuses

\* No command is without a code.
LEMMA CodesHaveCodes == NoCode \notin Codes
BY ManagerAssumption DEF Codes

\* DCU_move_to_front_in_log_ and DCU_create_log_on_front_ turn the log.
LEMMA FrontFacts ==
  ASSUME NEW log, IsLog(log), NEW code \in Codes
  PROVE  /\ Turned(MovedToFront(log, code), log, code)
         /\ \/ MovedToFront(log, code)[1] = NewEntry(code)
            \/ \E j \in 1..LogMax : MovedToFront(log, code)[1] = log[j]
         /\ log[1].code = code => MovedToFront(log, code)[1] = log[1]
<1> DEFINE place == PlaceInLog(log, code)
           t == MovedToFront(log, code)
<1>1. /\ log \in Seq(LogEntry) /\ Len(log) = LogMax /\ LogMax \in Nat /\ LogMax > 1
      /\ \A i \in 1..LogMax : log[i] \in LogEntry
  BY DividedAssumption, ElementOfSeq DEF IsLog
<1>2. /\ place \in 0..LogMax
      /\ place # 0 => log[place].code = code
      /\ place = 0 => \A i \in 1..LogMax : log[i].code # code
  BY PlaceFacts
<1>3. CASE place = 0
  <2> DEFINE f == Front(log)
             e == NewEntry(code)
  <2>1. t = <<e>> \o f
    BY <1>3 DEF MovedToFront
  <2>2. /\ f \in Seq(LogEntry) /\ Len(f) = LogMax - 1
        /\ \A i \in 1..(LogMax - 1) : f[i] = log[i]
    BY <1>1, SubSeqProperties DEF Front
  <2>3. e \in LogEntry /\ e.code = code
    BY NewEntryFacts
  <2>4. <<e>> \in Seq(LogEntry) /\ Len(<<e>>) = 1 /\ <<e>>[1] = e
    BY <2>3
  <2> HIDE DEF f, e
  <2>5. /\ t \in Seq(LogEntry) /\ Len(t) = LogMax /\ t[1] = e
        /\ \A i \in 2..LogMax : t[i] = log[i - 1]
    <3>1. /\ <<e>> \o f \in Seq(LogEntry) /\ Len(<<e>> \o f) = Len(<<e>>) + Len(f)
          /\ \A i \in 1..(Len(<<e>>) + Len(f)) :
               (<<e>> \o f)[i] = IF i <= Len(<<e>>) THEN <<e>>[i] ELSE f[i - Len(<<e>>)]
      BY <2>2, <2>4, ConcatProperties
    <3> QED BY <1>1, <2>1, <2>2, <2>4, <3>1
  <2> HIDE DEF t
  <2>6. ASSUME NEW i \in 1..LogMax, NEW j \in 1..LogMax, i # j, t[i].code = t[j].code
        PROVE  t[i].code = NoCode
    <3>1. \A k \in 2..LogMax : k - 1 \in 1..LogMax /\ t[k].code = log[k - 1].code /\ t[k].code # code
      BY <1>1, <1>2, <1>3, <2>5
    <3>2. (i = 1 \/ i \in 2..LogMax) /\ (j = 1 \/ j \in 2..LogMax)
      BY <1>1
    <3>3. i \in 2..LogMax /\ j \in 2..LogMax
      BY <2>3, <2>5, <2>6, <3>1, <3>2
    <3>4. i - 1 # j - 1
      BY <2>6, <3>3
    <3> QED BY <2>6, <3>1, <3>3, <3>4 DEF IsLog
  <2>7. \A i \in 2..LogMax : \E j \in 1..LogMax : t[i] = log[j] /\ log[j].code # code
    <3> SUFFICES ASSUME NEW i \in 2..LogMax PROVE t[i] = log[i - 1] /\ log[i - 1].code # code /\ i - 1 \in 1..LogMax
      OBVIOUS
    <3> QED BY <1>1, <1>2, <1>3, <2>5
  <2>8. log[1].code # code
    BY <1>1, <1>2, <1>3
  <2> QED BY <2>3, <2>5, <2>6, <2>7, <2>8 DEF Turned, IsLog, t, e
<1>4. CASE place # 0
  <2> DEFINE f == RemoveAt(log, place)
             e == log[place]
  <2>1. t = <<e>> \o f
    BY <1>4 DEF MovedToFront
  <2>2. place \in 1..LogMax /\ e \in LogEntry /\ e.code = code
    BY <1>1, <1>2, <1>4
  <2>3. /\ f \in Seq(LogEntry) /\ Len(f) = LogMax - 1
        /\ \A i \in 1..(LogMax - 1) : f[i] = IF i < place THEN log[i] ELSE log[i + 1]
    BY <1>1, <2>2, RemoveAtProperties
  <2>4. <<e>> \in Seq(LogEntry) /\ Len(<<e>>) = 1 /\ <<e>>[1] = e
    BY <2>2
  <2> HIDE DEF f, e, place
  <2>5. /\ t \in Seq(LogEntry) /\ Len(t) = LogMax /\ t[1] = e
        /\ \A i \in 2..LogMax : t[i] = IF i - 1 < place THEN log[i - 1] ELSE log[i]
    <3>1. /\ <<e>> \o f \in Seq(LogEntry) /\ Len(<<e>> \o f) = Len(<<e>>) + Len(f)
          /\ \A i \in 1..(Len(<<e>>) + Len(f)) :
               (<<e>> \o f)[i] = IF i <= Len(<<e>>) THEN <<e>>[i] ELSE f[i - Len(<<e>>)]
      BY <2>3, <2>4, ConcatProperties
    <3>2. \A i \in 2..LogMax : (i - 1) + 1 = i /\ i - 1 \in 1..(LogMax - 1) /\ ~(i <= 1) /\ i \in 1..(1 + (LogMax - 1))
      BY <1>1
    <3>3. \A i \in 2..LogMax : t[i] = f[i - 1]
      BY <2>1, <2>3, <2>4, <3>1, <3>2
    <3> QED BY <1>1, <2>1, <2>3, <2>4, <3>1, <3>2, <3>3
  <2> HIDE DEF t
  <2> DEFINE From(i) == IF i - 1 < place THEN i - 1 ELSE i
  <2>6. ASSUME NEW i \in 2..LogMax
        PROVE  From(i) \in 1..LogMax /\ From(i) # place /\ t[i] = log[From(i)] /\ log[From(i)].code # code
    <3>1. From(i) \in 1..LogMax /\ From(i) # place /\ t[i] = log[From(i)]
      BY <1>1, <2>2, <2>5
    <3>2. log[From(i)].code = code => log[From(i)].code = NoCode
      BY <2>2, <3>1 DEF IsLog, e
    <3> QED BY <3>1, <3>2, CodesHaveCodes
  <2>7. ASSUME NEW i \in 1..LogMax, NEW j \in 1..LogMax, i # j, t[i].code = t[j].code
        PROVE  t[i].code = NoCode
    <3>1. (i = 1 \/ i \in 2..LogMax) /\ (j = 1 \/ j \in 2..LogMax)
      BY <1>1
    <3>2. i \in 2..LogMax /\ j \in 2..LogMax
      BY <2>2, <2>5, <2>6, <2>7, <3>1
    <3>3. From(i) # From(j)
      BY <2>2, <2>7, <3>2
    <3> QED BY <2>6, <2>7, <3>2, <3>3 DEF IsLog
  <2>8. \A i \in 2..LogMax : \E j \in 1..LogMax : t[i] = log[j] /\ log[j].code # code
    BY <2>6
  <2>9. log[1].code = code => t[1] = log[1]
    <3>1. log[1].code = code => place = 1
      BY <1>1, <2>2, CodesHaveCodes DEF IsLog, e
    <3> QED BY <2>5, <3>1 DEF e
  <2>10. \E j \in 1..LogMax : t[1] = log[j]
    BY <2>2, <2>5 DEF e
  <2> QED BY <2>2, <2>5, <2>7, <2>8, <2>9, <2>10 DEF Turned, IsLog, t
<1> QED
  BY <1>3, <1>4

\* A turned log whose front entry is changed is a turned log.
LEMMA FrontChanged ==
  ASSUME NEW log, NEW old, NEW code \in Codes, Turned(log, old, code), NEW e \in LogEntry, e.code = code
  PROVE  Turned([log EXCEPT ![1] = e], old, code) /\ [log EXCEPT ![1] = e][1] = e
<1> DEFINE t == [log EXCEPT ![1] = e]
<1>1. log \in Seq(LogEntry) /\ Len(log) = LogMax /\ LogMax \in Nat /\ LogMax > 1
  BY DividedAssumption DEF IsLog, Turned
<1>2. /\ t \in Seq(LogEntry) /\ Len(t) = LogMax /\ t[1] = e
      /\ \A i \in 2..LogMax : t[i] = log[i]
  <2>1. DOMAIN log = 1..LogMax /\ \A i \in 1..LogMax : log[i] \in LogEntry
    BY <1>1, ElementOfSeq
  <2>2. DOMAIN t = 1..LogMax /\ \A i \in 1..LogMax : t[i] = IF i = 1 THEN e ELSE log[i]
    BY <1>1, <2>1
  <2>3. t = [i \in 1..LogMax |-> t[i]] /\ \A i \in 1..LogMax : t[i] \in LogEntry
    BY <2>1, <2>2
  <2>4. t \in Seq(LogEntry) /\ Len(t) = LogMax
    BY <1>1, <2>2, <2>3
  <2> QED BY <1>1, <2>2, <2>4
<1> HIDE DEF t
<1>3. \A i \in 1..LogMax : t[i].code = log[i].code
  BY <1>1, <1>2 DEF Turned
<1> QED
  BY <1>2, <1>3 DEF Turned, IsLog, t

\* What was turned twice for one command was turned for it.
LEMMA TurnedTwice ==
  ASSUME NEW a, NEW b, NEW old, NEW code, Turned(a, old, code), Turned(b, a, code)
  PROVE  Turned(b, old, code)
<1> SUFFICES ASSUME NEW i \in 2..LogMax PROVE \E j \in 1..LogMax : b[i] = old[j] /\ old[j].code # code
  BY DEF Turned
<1>1. PICK k \in 1..LogMax : b[i] = a[k] /\ a[k].code # code
  BY DEF Turned
<1>2. k \in 2..LogMax
  BY <1>1, DividedAssumption DEF Turned
<1> QED
  BY <1>1, <1>2 DEF Turned

\* The divided commands: a log, and a list of real time commands that is not too long.
IsDcu(dcu) ==
    /\ dcu \in [log : Seq(LogEntry), rtc : Seq(Codes)]
    /\ IsLog(dcu.log) /\ Len(dcu.rtc) <= RtcMax

\* The fields of an entry.
LEMMA EntryFields ==
  ASSUME NEW e \in LogEntry
  PROVE  /\ e.code \in Codes \cup {NoCode} /\ e.status \in Statuses /\ e.counter \in Nat
         /\ \A st \in Statuses : LET f == [e EXCEPT !.status = st]
                                 IN  f \in LogEntry /\ f.code = e.code /\ f.status = st /\ f.counter = e.counter
         /\ LET f == [e EXCEPT !.counter = @ + 1]
            IN  f \in LogEntry /\ f.code = e.code /\ f.status = e.status /\ f.counter = e.counter + 1
BY DEF LogEntry

\* The entries of a log are entries.
LEMMA LogEntries ==
  ASSUME NEW log, IsLog(log)
  PROVE  /\ LogMax \in Nat /\ LogMax > 1 /\ 1 \in 1..LogMax
         /\ \A i \in 1..LogMax : log[i] \in LogEntry
BY DividedAssumption, ElementOfSeq DEF IsLog

\* The entry of a command has its new status at the front of the log.
LEMMA WithStatusFacts ==
  ASSUME NEW dcu, IsDcu(dcu), NEW code \in Codes, NEW st \in Statuses, NEW new, new = WithStatus(dcu, code, st)
  PROVE  /\ IsDcu(new) /\ new.rtc = dcu.rtc /\ Turned(new.log, dcu.log, code)
         /\ new.log[1].status = st
         /\ \/ new.log[1].counter = 0
            \/ \E j \in 1..LogMax : dcu.log[j].code = code /\ new.log[1].counter = dcu.log[j].counter
         /\ dcu.log[1].code = code => new.log[1].counter = dcu.log[1].counter
<1> DEFINE log == MovedToFront(dcu.log, code)
           e == log[1]
           f == [e EXCEPT !.status = st]
<1>1. IsLog(dcu.log)
  BY DEF IsDcu
<1>2. /\ Turned(log, dcu.log, code)
      /\ e = NewEntry(code) \/ \E j \in 1..LogMax : e = dcu.log[j]
      /\ dcu.log[1].code = code => e = dcu.log[1]
  BY <1>1, FrontFacts
<1>3. e \in LogEntry /\ e.code = code
  BY <1>2, LogEntries DEF Turned
<1>4. f \in LogEntry /\ f.code = code /\ f.status = st /\ f.counter = e.counter
  BY <1>3, EntryFields
<1>5. new = [dcu EXCEPT !.log = [log EXCEPT ![1] = f]]
  BY DEF WithStatus
<1>6. NewEntry(code).counter = 0
  BY NewEntryFacts
<1> HIDE DEF log, e, f
<1>7. Turned([log EXCEPT ![1] = f], dcu.log, code) /\ [log EXCEPT ![1] = f][1] = f
  BY <1>2, <1>4, FrontChanged
<1> DEFINE turned == [log EXCEPT ![1] = f]
<1>8. turned \in Seq(LogEntry)
  BY <1>7 DEF Turned, IsLog
<1> HIDE DEF turned
<1>9. new \in [log : Seq(LogEntry), rtc : Seq(Codes)] /\ new.log = turned /\ new.rtc = dcu.rtc
  BY <1>5, <1>8 DEF IsDcu, turned
<1>10. Turned(new.log, dcu.log, code) /\ new.log[1] = f
  BY <1>7, <1>9 DEF turned
<1>11. IsDcu(new)
  BY <1>9, <1>10 DEF IsDcu, Turned
<1> QED
  BY <1>2, <1>3, <1>4, <1>6, <1>9, <1>10, <1>11

\* DCU_check_in: a new execution begins at 0, one in progress goes on with the next part, and one
\* that was aborted stays so.
LEMMA CheckedInFacts ==
  ASSUME NEW dcu, IsDcu(dcu), NEW code \in Codes, NEW new, new = CheckedIn(dcu, code)
  PROVE  /\ IsDcu(new) /\ new.rtc = dcu.rtc /\ Turned(new.log, dcu.log, code)
         /\ \/ new.log[1].status = "FINISHED" /\ new.log[1].counter = 0
            \/ \E j \in 1..LogMax :
                 /\ dcu.log[j].code = code /\ new.log[1].status = dcu.log[j].status
                 /\ dcu.log[j].status # "FINISHED"
                 /\ new.log[1].counter = IF dcu.log[j].status = "PROGRESS"
                                         THEN dcu.log[j].counter + 1 ELSE dcu.log[j].counter
<1> DEFINE log == MovedToFront(dcu.log, code)
           e == log[1]
           f == CheckedInEntry(e)
<1>1. IsLog(dcu.log)
  BY DEF IsDcu
<1>2. /\ Turned(log, dcu.log, code)
      /\ e = NewEntry(code) \/ \E j \in 1..LogMax : e = dcu.log[j]
  BY <1>1, FrontFacts
<1>3. e \in LogEntry /\ e.code = code
  BY <1>2, LogEntries DEF Turned
<1>4. /\ NewEntry(code) \in LogEntry /\ NewEntry(code).code = code /\ NewEntry(code).status = "FINISHED"
      /\ NewEntry(code).counter = 0
  BY NewEntryFacts
<1>5. /\ f \in LogEntry /\ f.code = code
      /\ e.status = "FINISHED" => f.status = "FINISHED" /\ f.counter = 0
      /\ e.status # "FINISHED" => f.status = e.status
      /\ e.status = "PROGRESS" => f.counter = e.counter + 1
      /\ e.status \notin {"FINISHED", "PROGRESS"} => f.counter = e.counter
  <2>1. CASE e.status = "FINISHED"
    <3>1. f = NewEntry(code)
      BY <1>3, <2>1 DEF CheckedInEntry
    <3> QED BY <1>4, <2>1, <3>1
  <2>2. CASE e.status = "PROGRESS"
    <3>1. f = [e EXCEPT !.counter = @ + 1]
      BY <2>2 DEF CheckedInEntry
    <3> HIDE DEF e, f
    <3> QED BY <1>3, <2>2, <3>1, EntryFields
  <2>3. CASE e.status \notin {"FINISHED", "PROGRESS"}
    <3>1. f = e
      BY <2>3 DEF CheckedInEntry
    <3> QED BY <1>3, <2>3, <3>1
  <2> QED BY <2>1, <2>2, <2>3
<1>6. new = [dcu EXCEPT !.log = [log EXCEPT ![1] = f]]
  BY DEF CheckedIn
<1> HIDE DEF log, e, f
<1>7. Turned([log EXCEPT ![1] = f], dcu.log, code) /\ [log EXCEPT ![1] = f][1] = f
  BY <1>2, <1>5, FrontChanged
<1> DEFINE turned == [log EXCEPT ![1] = f]
<1>8. turned \in Seq(LogEntry)
  BY <1>7 DEF Turned, IsLog
<1> HIDE DEF turned
<1>9. new \in [log : Seq(LogEntry), rtc : Seq(Codes)] /\ new.log = turned /\ new.rtc = dcu.rtc
  BY <1>6, <1>8 DEF IsDcu, turned
<1>10. Turned(new.log, dcu.log, code) /\ new.log[1] = f
  BY <1>7, <1>9 DEF turned
<1>11. IsDcu(new)
  BY <1>9, <1>10 DEF IsDcu, Turned
<1>12. CASE e = NewEntry(code)
  BY <1>4, <1>5, <1>9, <1>10, <1>11, <1>12
<1>13. CASE \E j \in 1..LogMax : e = dcu.log[j]
  <2>1. PICK j \in 1..LogMax : e = dcu.log[j]
    BY <1>13
  <2>2. CASE e.status = "FINISHED"
    BY <1>5, <1>9, <1>10, <1>11, <2>2
  <2>3. CASE e.status # "FINISHED"
    BY <1>3, <1>5, <1>9, <1>10, <1>11, <2>1, <2>3
  <2> QED BY <2>2, <2>3
<1> QED
  BY <1>2, <1>12, <1>13

\* DCU_donw_abort_flag: the entry is as new.
LEMMA AbortFlagDownFacts ==
  ASSUME NEW dcu, IsDcu(dcu), NEW code \in Codes, NEW new, new = AbortFlagDown(dcu, code)
  PROVE  /\ IsDcu(new) /\ new.rtc = dcu.rtc /\ Turned(new.log, dcu.log, code)
         /\ new.log[1].status = "FINISHED" /\ new.log[1].counter = 0
<1> DEFINE log == MovedToFront(dcu.log, code)
           f == NewEntry(code)
<1>1. IsLog(dcu.log)
  BY DEF IsDcu
<1>2. Turned(log, dcu.log, code)
  BY <1>1, FrontFacts
<1>3. f \in LogEntry /\ f.code = code /\ f.status = "FINISHED" /\ f.counter = 0
  BY NewEntryFacts
<1>4. new = [dcu EXCEPT !.log = [log EXCEPT ![1] = f]]
  BY DEF AbortFlagDown
<1> HIDE DEF log, f
<1>5. Turned([log EXCEPT ![1] = f], dcu.log, code) /\ [log EXCEPT ![1] = f][1] = f
  BY <1>2, <1>3, FrontChanged
<1> DEFINE turned == [log EXCEPT ![1] = f]
<1>6. turned \in Seq(LogEntry)
  BY <1>5 DEF Turned, IsLog
<1> HIDE DEF turned
<1>7. new \in [log : Seq(LogEntry), rtc : Seq(Codes)] /\ new.log = turned /\ new.rtc = dcu.rtc
  BY <1>4, <1>6 DEF IsDcu, turned
<1>8. Turned(new.log, dcu.log, code) /\ new.log[1] = f
  BY <1>5, <1>7 DEF turned
<1>9. IsDcu(new)
  BY <1>7, <1>8 DEF IsDcu, Turned
<1> QED
  BY <1>3, <1>7, <1>8, <1>9

\* DCU_register_next: the command is in progress and in the list, or it was aborted as the list is full.
LEMMA NextRegisteredFacts ==
  ASSUME NEW dcu, IsDcu(dcu), NEW code \in Codes, dcu.log[1].code = code, NEW new, new = NextRegistered(dcu, code)
  PROVE  /\ IsDcu(new) /\ Turned(new.log, dcu.log, code)
         /\ new.log[1].status \in {"PROGRESS", "ABORTED_BY_ERR"}
         /\ new.log[1].counter = dcu.log[1].counter
         /\ new.rtc = dcu.rtc \/ new.rtc = Append(dcu.rtc, code)
<1> DEFINE progress == WithStatus(dcu, code, "PROGRESS")
           aborted == WithStatus(dcu, code, "ABORTED_BY_ERR")
<1>0. "PROGRESS" \in Statuses /\ "ABORTED_BY_ERR" \in Statuses
  BY DEF Statuses
<1>1. new = IF Len(dcu.rtc) < RtcMax THEN [progress EXCEPT !.rtc = Append(@, code)] ELSE aborted
  BY DEF NextRegistered
<1>2. CASE Len(dcu.rtc) < RtcMax
  <2>1. /\ IsDcu(progress) /\ progress.rtc = dcu.rtc /\ Turned(progress.log, dcu.log, code)
        /\ progress.log[1].status = "PROGRESS" /\ progress.log[1].counter = dcu.log[1].counter
    BY <1>0, WithStatusFacts
  <2>2. new = [progress EXCEPT !.rtc = Append(@, code)]
    BY <1>1, <1>2
  <2> HIDE DEF progress
  <2>3. progress.rtc \in Seq(Codes) /\ Len(progress.rtc) < RtcMax /\ RtcMax \in Nat
    BY <1>2, <2>1, DividedAssumption DEF IsDcu
  <2>4. Append(progress.rtc, code) \in Seq(Codes) /\ Len(Append(progress.rtc, code)) <= RtcMax
    BY <2>3, AppendProperties, LenProperties
  <2>5. /\ new \in [log : Seq(LogEntry), rtc : Seq(Codes)] /\ new.log = progress.log
        /\ new.rtc = Append(progress.rtc, code)
    BY <2>1, <2>2, <2>4 DEF IsDcu
  <2>6. IsDcu(new)
    BY <2>1, <2>4, <2>5 DEF IsDcu
  <2> QED BY <2>1, <2>5, <2>6
<1>3. CASE ~(Len(dcu.rtc) < RtcMax)
  <2>1. /\ IsDcu(aborted) /\ aborted.rtc = dcu.rtc /\ Turned(aborted.log, dcu.log, code)
        /\ aborted.log[1].status = "ABORTED_BY_ERR" /\ aborted.log[1].counter = dcu.log[1].counter
    BY <1>0, WithStatusFacts
  <2>2. new = aborted
    BY <1>1, <1>3
  <2> QED BY <2>1, <2>2
<1> QED
  BY <1>2, <1>3

-----------------------------------------------------------------------------
(***************************************************************************)
(* The telemetry manager: the blocks of a role and the places of its       *)
(* commands.                                                               *)
(***************************************************************************)
\* The elements of a finite set of numbers in ascending order: the one with k - 1 smaller ones
\* exists, and no other one has as many smaller ones.
LEMMA Ranked ==
  ASSUME NEW own \in SUBSET Nat, IsFiniteSet(own), NEW n, n = Cardinality(own)
  PROVE  /\ n \in Nat
         /\ \A k \in 1..n : \E b \in own : Cardinality({a \in own : a < b}) = k - 1
         /\ \A b \in own : Cardinality({a \in own : a < b}) \in 0..(n - 1)
         /\ \A b, c \in own : Cardinality({a \in own : a < b}) = Cardinality({a \in own : a < c}) => b = c
<1>1. n \in Nat /\ IsFiniteSet(0..(n - 1)) /\ Cardinality(0..(n - 1)) = n
  <2>1. n \in Nat
    BY FS_CardinalityType
  <2>2. 0 \in Int /\ n - 1 \in Int /\ (0 > n - 1 <=> n = 0) /\ (n - 1) - 0 + 1 = n
    BY <2>1
  <2> QED BY <2>1, <2>2, FS_Interval
<1> DEFINE Smaller(b) == {a \in own : a < b}
           rank == [b \in own |-> Cardinality(Smaller(b))]
<1>2. ASSUME NEW b \in own
      PROVE  /\ rank[b] \in 0..(n - 1) /\ IsFiniteSet(Smaller(b))
  <2>1. IsFiniteSet(own \ {b}) /\ Cardinality(own \ {b}) = n - 1
    BY FS_RemoveElement
  <2>2. Smaller(b) \in SUBSET (own \ {b})
    OBVIOUS
  <2>3. IsFiniteSet(Smaller(b)) /\ Cardinality(Smaller(b)) <= n - 1
    BY <2>1, <2>2, FS_Subset
  <2>4. Cardinality(Smaller(b)) \in Nat
    BY <2>3, FS_CardinalityType
  <2> QED BY <1>1, <2>3, <2>4
<1>3. ASSUME NEW a \in own, NEW b \in own, a < b PROVE rank[a] < rank[b]
  <2>1. IsFiniteSet(Smaller(a)) /\ IsFiniteSet(Smaller(b)) /\ a \notin Smaller(a)
    BY <1>2
  <2>2. /\ IsFiniteSet(Smaller(a) \cup {a})
        /\ Cardinality(Smaller(a) \cup {a}) = Cardinality(Smaller(a)) + 1
    BY <2>1, FS_AddElement
  <2>3. Smaller(a) \cup {a} \in SUBSET Smaller(b)
    <3>1. ASSUME NEW x \in own, x < a PROVE x < b
      <4>1. \A i, j, k \in Nat : i < j /\ j < k => i < k
        OBVIOUS
      <4> QED BY <1>3, <3>1, <4>1
    <3> QED BY <1>3, <3>1
  <2>4. Cardinality(Smaller(a) \cup {a}) <= Cardinality(Smaller(b))
    BY <2>1, <2>3, FS_Subset
  <2>5. rank[a] = Cardinality(Smaller(a)) /\ rank[b] = Cardinality(Smaller(b))
    OBVIOUS
  <2>6. Cardinality(Smaller(a)) \in Nat /\ Cardinality(Smaller(b)) \in Nat
    BY <2>1, FS_CardinalityType
  <2> HIDE DEF rank, Smaller
  <2> QED BY <2>2, <2>4, <2>5, <2>6
<1>4. rank \in [own -> 0..(n - 1)]
  BY <1>2
<1>5. \A b \in own : rank[b] = Cardinality({a \in own : a < b})
  OBVIOUS
<1> HIDE DEF rank, Smaller
<1>6. \A a, b \in own : rank[a] = rank[b] => a = b
  <2> SUFFICES ASSUME NEW a \in own, NEW b \in own, rank[a] = rank[b], a # b PROVE FALSE
    OBVIOUS
  <2>1. rank[a] \in Nat /\ rank[b] \in Nat /\ (a < b \/ b < a)
    BY <1>1, <1>2
  <2> QED BY <1>3, <2>1
<1>7. rank \in Surjection(own, 0..(n - 1))
  <2>1. rank \in Injection(own, 0..(n - 1))
    BY <1>4, <1>6 DEF Injection, IsInjective
  <2> QED BY <1>1, <2>1, FS_Injection
<1>8. ASSUME NEW k \in 1..n PROVE \E b \in own : rank[b] = k - 1
  <2>1. k - 1 \in 0..(n - 1)
    BY <1>1
  <2> QED BY <1>7, <2>1 DEF Surjection
<1>9. \A b \in own : rank[b] \in 0..(n - 1)
  BY <1>4
<1> QED
  BY <1>1, <1>5, <1>6, <1>8, <1>9

\* The blocks of a role are all its blocks, each at one place.
LEMMA BlocksOfRole ==
  ASSUME NEW r \in Roles
  PROVE  /\ Len(BlocksOf(r)) \in 1..Len(BlockRoles)
         /\ \A k \in 1..Len(BlocksOf(r)) : BlocksOf(r)[k] \in BlockNumbers /\ BlockRoles[BlocksOf(r)[k]] = r
         /\ \A j, k \in 1..Len(BlocksOf(r)) : BlocksOf(r)[j] = BlocksOf(r)[k] => j = k
         /\ \A b \in BlockNumbers : BlockRoles[b] = r => \E k \in 1..Len(BlocksOf(r)) : BlocksOf(r)[k] = b
<1> DEFINE own == {b \in BlockNumbers : BlockRoles[b] = r}
           n == Cardinality(own)
           At(k) == CHOOSE b \in own : Cardinality({a \in own : a < b}) = k - 1
           seq == [k \in 1..n |-> At(k)]
<1>1. BlocksOf(r) = seq
  BY DEF BlocksOf
<1>2. BlockNumbers = 1..Len(BlockRoles) /\ Len(BlockRoles) \in Nat
  BY ManagerAssumption DEF BlockNumbers
<1>3. IsFiniteSet(BlockNumbers) /\ Cardinality(BlockNumbers) = Len(BlockRoles)
  <2>1. 1 \in Int /\ Len(BlockRoles) \in Int
    BY <1>2
  <2> DEFINE size == Len(BlockRoles)
  <2>2. (1 > size <=> size = 0) /\ (size - 1) + 1 = size
    BY <1>2
  <2> HIDE DEF size
  <2>3. IsFiniteSet(1..size) /\ Cardinality(1..size) = size
    BY <2>1, <2>2, FS_Interval DEF size
  <2> QED BY <1>2, <2>3 DEF size
<1>4. IsFiniteSet(own) /\ n <= Len(BlockRoles)
  BY <1>3, FS_Subset
<1>5. own # {}
  <2>1. PICK i \in DOMAIN BlockRoles : BlockRoles[i] = r
    BY ManagerAssumption DEF ToSet
  <2> QED BY <2>1 DEF BlockNumbers
<1>6. own \in SUBSET Nat
  BY <1>2
<1>7. /\ n \in Nat /\ \A k \in 1..n : \E b \in own : Cardinality({a \in own : a < b}) = k - 1
      /\ \A b \in own : Cardinality({a \in own : a < b}) \in 0..(n - 1)
      /\ \A b, c \in own : Cardinality({a \in own : a < b}) = Cardinality({a \in own : a < c}) => b = c
  BY <1>4, <1>6, Ranked
<1>8. n \in 1..Len(BlockRoles)
  <2>1. n # 0
    BY <1>4, <1>5, FS_EmptySet
  <2> QED BY <1>2, <1>4, <1>7, <2>1
<1>9. \A k \in 1..n : At(k) \in own /\ Cardinality({a \in own : a < At(k)}) = k - 1
  BY <1>7
<1>10. Len(seq) = n /\ \A k \in 1..n : seq[k] = At(k)
  <2>1. n \in Nat
    BY <1>7
  <2> QED BY <2>1
<1>11. \A k \in 1..n : At(k) \in BlockNumbers /\ BlockRoles[At(k)] = r
  BY <1>9
<1>12. ASSUME NEW j \in 1..n, NEW k \in 1..n, At(j) = At(k) PROVE j = k
  <2>1. j - 1 = k - 1
    BY <1>9, <1>12
  <2> QED BY <1>7, <2>1
<1>13. ASSUME NEW b \in BlockNumbers, BlockRoles[b] = r PROVE \E k \in 1..n : At(k) = b
  <2> DEFINE k == Cardinality({a \in own : a < b}) + 1
  <2>1. b \in own
    BY <1>13
  <2>2. Cardinality({a \in own : a < b}) \in 0..(n - 1)
    BY <1>7, <2>1
  <2>3. k \in 1..n /\ k - 1 = Cardinality({a \in own : a < b})
    BY <1>7, <2>2
  <2>4. At(k) \in own /\ Cardinality({a \in own : a < At(k)}) = k - 1
    BY <1>9, <2>3
  <2>5. At(k) = b
    BY <1>7, <2>1, <2>3, <2>4
  <2> QED BY <2>3, <2>5
<1> HIDE DEF At, seq, n
<1> QED
  BY <1>1, <1>8, <1>10, <1>11, <1>12, <1>13

\* How many commands a role can have.
RoleCells(r) == Len(BlocksOf(r)) * CellsPerBlock

\* The places of a role: each number up to the last has a cell of its own in a block of the role.
LEMMA SlotFacts ==
  ASSUME NEW r \in Roles
  PROVE  /\ RoleCells(r) \in Nat /\ RoleCells(r) <= Len(BlockRoles) * CellsPerBlock
         /\ \A k \in 0..(RoleCells(r) - 1) :
               /\ Slot(r, k) \in [block : BlockNumbers, cell : CellNumbers]
               /\ BlockRoles[Slot(r, k).block] = r
               /\ \E m \in 1..Len(BlocksOf(r)) : Slot(r, k).block = BlocksOf(r)[m]
         /\ \A j, k \in 0..(RoleCells(r) - 1) : Slot(r, j) = Slot(r, k) => j = k
<1> DEFINE n == Len(BlocksOf(r))
           c == CellsPerBlock
<1>1. /\ n \in Nat \ {0} /\ n <= Len(BlockRoles) /\ Len(BlockRoles) \in Nat /\ c \in Nat \ {0}
      /\ \A k \in 1..n : BlocksOf(r)[k] \in BlockNumbers /\ BlockRoles[BlocksOf(r)[k]] = r
      /\ \A j, k \in 1..n : BlocksOf(r)[j] = BlocksOf(r)[k] => j = k
  BY BlocksOfRole, ManagerAssumption
<1> HIDE DEF n, c
<1>2. n * c \in Nat /\ n * c <= Len(BlockRoles) * c
  <2>1. \A a, b, d \in Nat : a <= b => a * d \in Nat /\ a * d <= b * d
    OBVIOUS
  <2> QED BY <1>1, <2>1
<1>3. ASSUME NEW k \in 0..(n * c - 1)
      PROVE  (k % n) + 1 \in 1..n /\ k \div n \in 0..(c - 1) /\ k = (n * (k \div n)) + (k % n) /\ k \in Nat
  <2>1. k \in Nat /\ k < n * c
    BY <1>2
  <2>2. k \div n \in Nat /\ k % n \in 0..(n - 1) /\ k = (n * (k \div n)) + (k % n)
    BY <1>1, <2>1, Division
  <2> DEFINE q == k \div n
             m == k % n
  <2>3. q < c
    <3> SUFFICES ASSUME q >= c PROVE FALSE
      BY <1>1, <2>2
    <3>1. \A a, b, d \in Nat : a >= b => d * a >= d * b
      OBVIOUS
    <3>2. n * q >= n * c
      BY <1>1, <2>2, <3>1
    <3>3. m \in Nat /\ k = (n * q) + m /\ n * q \in Nat
      BY <1>1, <2>2
    <3> HIDE DEF q, m
    <3>4. n * c = c * n
      BY <1>1
    <3> QED BY <2>1, <3>2, <3>3, <1>2
  <2> HIDE DEF q, m
  <2>4. m + 1 \in 1..n /\ q \in 0..(c - 1)
    BY <1>1, <2>2, <2>3 DEF m, q
  <2> QED BY <2>1, <2>2, <2>4 DEF q, m
<1>4. \A k : Slot(r, k) = [block |-> BlocksOf(r)[(k % n) + 1], cell |-> k \div n]
  BY DEF Slot, n
<1>5. CellNumbers = 0..(c - 1)
  BY DEF CellNumbers, c
<1>6. RoleCells(r) = n * c
  BY DEF RoleCells, n, c
<1>7. ASSUME NEW k \in 0..(n * c - 1)
      PROVE  /\ Slot(r, k) \in [block : BlockNumbers, cell : CellNumbers]
             /\ BlockRoles[Slot(r, k).block] = r
             /\ \E m \in 1..n : Slot(r, k).block = BlocksOf(r)[m]
  <2> DEFINE m == (k % n) + 1
             q == k \div n
  <2>1. m \in 1..n /\ q \in 0..(c - 1)
    BY <1>3
  <2>2. Slot(r, k) = [block |-> BlocksOf(r)[m], cell |-> q]
    BY <1>4
  <2> HIDE DEF m, q
  <2>3. BlocksOf(r)[m] \in BlockNumbers /\ BlockRoles[BlocksOf(r)[m]] = r
    BY <1>1, <2>1
  <2> QED BY <1>5, <2>1, <2>2, <2>3
<1>8. ASSUME NEW j \in 0..(n * c - 1), NEW k \in 0..(n * c - 1), Slot(r, j) = Slot(r, k)
      PROVE  j = k
  <2> DEFINE mj == j % n
             qj == j \div n
             mk == k % n
             qk == k \div n
  <2>1. mj + 1 \in 1..n /\ mk + 1 \in 1..n /\ j = (n * qj) + mj /\ k = (n * qk) + mk /\ mj \in Nat /\ mk \in Nat
    <3>1. j \in Nat /\ k \in Nat
      BY <1>2
    <3>2. mj \in 0..(n - 1) /\ mk \in 0..(n - 1)
      BY <1>1, <3>1, Division
    <3>3. mj + 1 \in 1..n /\ mk + 1 \in 1..n /\ j = (n * qj) + mj /\ k = (n * qk) + mk
      BY <1>3
    <3> HIDE DEF mj, mk, qj, qk
    <3> QED BY <3>2, <3>3
  <2>2. Slot(r, j) = [block |-> BlocksOf(r)[mj + 1], cell |-> qj] /\ Slot(r, k) = [block |-> BlocksOf(r)[mk + 1], cell |-> qk]
    BY <1>4
  <2> HIDE DEF mj, mk, qj, qk
  <2>3. qj = qk /\ BlocksOf(r)[mj + 1] = BlocksOf(r)[mk + 1]
    <3>1. \A x, y, u, v : [block |-> x, cell |-> y] = [block |-> u, cell |-> v] => x = u /\ y = v
      OBVIOUS
    <3>2. [block |-> BlocksOf(r)[mj + 1], cell |-> qj] = [block |-> BlocksOf(r)[mk + 1], cell |-> qk]
      <4>1. Slot(r, j) = Slot(r, k)
        BY <1>8
      <4> QED BY <2>2, <4>1, Zenon
    <3> QED BY <3>1, <3>2, Zenon
  <2>4. mj + 1 = mk + 1
    BY <1>1, <2>1, <2>3
  <2> QED BY <2>1, <2>3, <2>4
<1> QED
  BY <1>1, <1>2, <1>6, <1>7, <1>8 DEF c, n

-----------------------------------------------------------------------------
(***************************************************************************)
(* The telemetry manager: the invariant.  The entries of the log say how   *)
(* far their commands have got, and the table, the blocks and the numbers  *)
(* of commands describe one plan.                                          *)
(***************************************************************************)
TelemetryCell == [cmd : Commands \cup {NopCmd, Leftover}, ti : CellNumbers]

ManagerStates ==
    [dcu : [log : Seq(LogEntry), rtc : Seq(Codes)], inited : BOOLEAN, known : BOOLEAN, num : [Roles -> Nat],
     elem : [BlockNumbers -> [CellNumbers -> Commands \cup {Unregistered}]],
     cells : [BlockNumbers -> [CellNumbers -> TelemetryCell]],
     asked : [Roles -> [Commands -> Nat]], partly : SUBSET Roles, disturbed : SUBSET Roles, cut : SUBSET Codes]

\* A block as it is after it was cleared.
NopCells == [i \in CellNumbers |-> Cell(NopCmd, i)]
IsCleared(s, b) == s.elem[b] = EmptyTable[b] /\ s.cells[b] = NopCells

\* The part number c of a clearing is done, or of an initialization.
ClearInProgress(s, r, c) ==
    /\ s.known /\ r \in s.partly /\ c < Len(BlocksOf(r))
    /\ r \notin s.disturbed => \A k \in 1..(c + 1) : IsCleared(s, BlocksOf(r)[k])

InitInProgress(s, c) ==
    /\ s.known /\ ~s.inited /\ c <= Len(BlockRoles)
    /\ s.num = [r \in Roles |-> 0] /\ s.elem = EmptyTable
    /\ \A b \in 1..(c - 1) : s.cells[b] = NopCells

\* An entry of the log says how far its command has got.
EntryOK(s, e) ==
    /\ e.code \in Roles => /\ e.counter <= Len(BlocksOf(e.code))
                           /\ e.status = "PROGRESS" => ClearInProgress(s, e.code, e.counter)
    /\ e.code = "INIT" => /\ e.counter <= Len(BlockRoles) + 1
                          /\ e.status = "PROGRESS" => InitInProgress(s, e.counter)
EntriesOK(s) == \A i \in 1..LogMax : EntryOK(s, s.dcu.log[i])

\* The table, the blocks and what was asked for.
CellMatches(s, b, i) ==
    IF s.elem[b][i] # Unregistered THEN s.cells[b][i].cmd = s.elem[b][i]
    ELSE s.cells[b][i].cmd = NopCmd /\ (BlockRoles[b] \in s.partly \/ s.cells[b][i].ti = i)
AllMatch(s) == \A b \in BlockNumbers, i \in CellNumbers : CellMatches(s, b, i)

Packed(s, r) == \A k \in 0..(RoleCells(r) - 1) : ElemAt(s, Slot(r, k)) # Unregistered <=> k < s.num[r]

SentAt(s, r, c) == {k \in 0..(RoleCells(r) - 1) : CellAt(s, Slot(r, k)).cmd = c}
AsAsked(s, r) == \A c \in Commands : Cardinality(SentAt(s, r, c)) = s.asked[r][c]

PlanOK(s) ==
    s.inited => s.known /\ AllMatch(s) /\ \A r \in Roles \ s.partly : Packed(s, r) /\ AsAsked(s, r)

ManagerBase(s) ==
    /\ s \in ManagerStates /\ IsDcu(s.dcu) /\ s.disturbed \subseteq s.partly
    /\ \A r \in Roles : s.num[r] <= RoleCells(r)

ManagerInv(s) == ManagerBase(s) /\ EntriesOK(s) /\ PlanOK(s)

\* The fields of a state.
LEMMA ManagerFields ==
  ASSUME NEW s \in ManagerStates
  PROVE  /\ s.dcu \in [log : Seq(LogEntry), rtc : Seq(Codes)] /\ s.inited \in BOOLEAN /\ s.known \in BOOLEAN
         /\ s.num \in [Roles -> Nat]
         /\ s.elem \in [BlockNumbers -> [CellNumbers -> Commands \cup {Unregistered}]]
         /\ s.cells \in [BlockNumbers -> [CellNumbers -> TelemetryCell]]
         /\ s.asked \in [Roles -> [Commands -> Nat]]
         /\ s.partly \in SUBSET Roles /\ s.disturbed \in SUBSET Roles /\ s.cut \in SUBSET Codes
BY DEF ManagerStates

\* What the entries speak of is the same in two states.
SamePlan(s, t) ==
    /\ t.known = s.known /\ t.inited = s.inited /\ t.num = s.num /\ t.elem = s.elem /\ t.cells = s.cells
    /\ t.partly = s.partly /\ t.disturbed = s.disturbed

\* The entries of other commands stay true.
OthersKept(s, t, code) == \A e \in LogEntry : e.code # code /\ EntryOK(s, e) => EntryOK(t, e)

LEMMA SamePlanKeeps ==
  ASSUME NEW s, NEW t, SamePlan(s, t)
  PROVE  /\ \A e : EntryOK(t, e) <=> EntryOK(s, e)
         /\ \A code : OthersKept(s, t, code)
         /\ t.asked = s.asked /\ PlanOK(s) => PlanOK(t)
<1>1. \A e : EntryOK(t, e) <=> EntryOK(s, e)
  BY DEF SamePlan, EntryOK, ClearInProgress, InitInProgress, IsCleared
<1>2. t.asked = s.asked /\ PlanOK(s) => PlanOK(t)
  BY DEF SamePlan, PlanOK, AllMatch, CellMatches, Packed, AsAsked, SentAt, ElemAt, CellAt
<1> QED
  BY <1>1, <1>2 DEF OthersKept

\* The entries of a turned log.
LEMMA EntriesTurned ==
  ASSUME NEW s, NEW t, NEW code, IsDcu(s.dcu), EntriesOK(s), OthersKept(s, t, code),
         Turned(t.dcu.log, s.dcu.log, code), EntryOK(t, t.dcu.log[1])
  PROVE  EntriesOK(t)
<1> SUFFICES ASSUME NEW i \in 1..LogMax PROVE EntryOK(t, t.dcu.log[i])
  BY DEF EntriesOK
<1>1. IsLog(s.dcu.log)
  BY DEF IsDcu
<1>2. CASE i = 1
  BY <1>2
<1>3. CASE i # 1
  <2>1. i \in 2..LogMax
    BY <1>1, <1>3, LogEntries
  <2>2. PICK j \in 1..LogMax : t.dcu.log[i] = s.dcu.log[j] /\ s.dcu.log[j].code # code
    BY <2>1 DEF Turned
  <2>3. s.dcu.log[j] \in LogEntry
    BY <1>1, LogEntries
  <2>4. EntryOK(s, s.dcu.log[j])
    BY DEF EntriesOK
  <2> QED BY <2>2, <2>3, <2>4 DEF OthersKept
<1> QED
  BY <1>2, <1>3

\* A command that only changes the log of the divided commands.
LEMMA DcuStep ==
  ASSUME NEW s, ManagerInv(s), NEW t, NEW d, t = [s EXCEPT !.dcu = d], IsDcu(d),
         NEW code, Turned(d.log, s.dcu.log, code), EntryOK(s, d.log[1])
  PROVE  ManagerInv(t)
<1>1. s \in ManagerStates /\ IsDcu(s.dcu) /\ EntriesOK(s) /\ PlanOK(s)
  BY DEF ManagerInv, ManagerBase
<1>2. t \in ManagerStates /\ t.dcu = d /\ SamePlan(s, t) /\ t.asked = s.asked
  BY <1>1 DEF ManagerStates, SamePlan, IsDcu
<1>3. EntriesOK(t)
  <2>1. OthersKept(s, t, code) /\ EntryOK(t, d.log[1])
    BY <1>2, SamePlanKeeps
  <2> QED BY <1>1, <1>2, <2>1, EntriesTurned
<1>4. PlanOK(t)
  BY <1>1, <1>2, SamePlanKeeps
<1>5. ManagerBase(t)
  BY <1>2 DEF ManagerInv, ManagerBase, SamePlan
<1> QED
  BY <1>3, <1>4, <1>5 DEF ManagerInv

\* An entry that is not in progress says nothing but that its counter is within bounds.
Bound(code) == IF code \in Roles THEN Len(BlocksOf(code)) ELSE Len(BlockRoles) + 1

LEMMA BoundFacts ==
  ASSUME NEW code \in Codes
  PROVE  /\ Bound(code) \in Nat /\ Bound(code) >= 1
         /\ code \in Roles => Bound(code) = Len(BlocksOf(code))
         /\ code = "INIT" => Bound(code) = Len(BlockRoles) + 1 /\ code \notin Roles
<1>1. Len(BlockRoles) \in Nat /\ "INIT" \notin Roles
  BY ManagerAssumption
<1>2. CASE code \in Roles
  BY <1>1, <1>2, BlocksOfRole DEF Bound
<1>3. CASE code = "INIT"
  BY <1>1, <1>3 DEF Bound
<1> QED
  BY <1>2, <1>3 DEF Codes

\* The counter of an entry is within bounds.
LEMMA EntryBound ==
  ASSUME NEW s, NEW e, NEW code \in Codes, e.code = code
  PROVE  /\ EntryOK(s, e) => e.counter <= Bound(code)
         /\ e.counter <= Bound(code) /\ e.status # "PROGRESS" => EntryOK(s, e)
BY BoundFacts DEF EntryOK, Codes

-----------------------------------------------------------------------------
(***************************************************************************)
(* The telemetry manager: one execution of a divided command.              *)
(***************************************************************************)
\* A command has checked in, and its entry at the front is not yet true again: everything else is.
OthersOK(s, code) ==
    \A j \in 1..LogMax : s.dcu.log[j].code # code => EntryOK(s, s.dcu.log[j])
CheckedInState(s, code) ==
    ManagerBase(s) /\ PlanOK(s) /\ s.dcu.log[1].code = code /\ OthersOK(s, code)

\* The part before the part n of a command is done.
DoneBefore(s, code, n) ==
    \/ n = 0
    \/ /\ n > 0
       /\ code \in Roles => ClearInProgress(s, code, n - 1)
       /\ code = "INIT" => InitInProgress(s, n - 1)

\* The entries of the other commands stay true.
LogKept(s, t, code) ==
    \A j \in 1..LogMax : s.dcu.log[j].code # code => EntryOK(t, s.dcu.log[j])

LEMMA KeptOthers ==
  ASSUME NEW s, NEW code, CheckedInState(s, code), NEW t, OthersKept(s, t, code)
  PROVE  LogKept(s, t, code)
<1> SUFFICES ASSUME NEW j \in 1..LogMax, s.dcu.log[j].code # code PROVE EntryOK(t, s.dcu.log[j])
  BY DEF LogKept
<1>1. s.dcu.log[j] \in LogEntry
  BY LogEntries DEF CheckedInState, ManagerBase, IsDcu
<1>2. EntryOK(s, s.dcu.log[j])
  BY DEF CheckedInState, OthersOK
<1> QED
  BY <1>1, <1>2 DEF OthersKept

\* The end of an execution: the log is turned and its front entry is true again.
LEMMA ExecutionEnds ==
  ASSUME NEW s, NEW code, CheckedInState(s, code), NEW t, NEW u, LogKept(s, t, code),
         ManagerBase(u), PlanOK(u), SamePlan(t, u),
         Turned(u.dcu.log, s.dcu.log, code), EntryOK(t, u.dcu.log[1])
  PROVE  ManagerInv(u)
<1>1. \A e : EntryOK(u, e) <=> EntryOK(t, e)
  BY SamePlanKeeps
<1>2. ASSUME NEW i \in 1..LogMax PROVE EntryOK(t, u.dcu.log[i])
  <2>1. CASE i = 1
    BY <2>1
  <2>2. CASE i # 1
    <3>1. i \in 2..LogMax
      BY <2>2, LogEntries DEF CheckedInState, ManagerBase, IsDcu
    <3>2. PICK j \in 1..LogMax : u.dcu.log[i] = s.dcu.log[j] /\ s.dcu.log[j].code # code
      BY <3>1 DEF Turned
    <3> QED BY <3>2 DEF LogKept
  <2> QED BY <2>1, <2>2
<1>3. EntriesOK(u)
  BY <1>1, <1>2 DEF EntriesOK
<1> QED
  BY <1>3 DEF ManagerInv

\* DCU_check_in: either the command may not execute, and its entry is as before, or the part before
\* the one that the counter names is done.
LEMMA CommandChecksIn ==
  ASSUME NEW s, ManagerInv(s), NEW code \in Codes, NEW in, in = [s EXCEPT !.dcu = CheckedIn(@, code)]
  PROVE  /\ CheckedInState(in, code) /\ SamePlan(s, in) /\ in.dcu.log[1].counter \in Nat
         /\ MayExecute(in.dcu) => DoneBefore(in, code, in.dcu.log[1].counter)
         /\ ~MayExecute(in.dcu) => ManagerInv(in)
<1> DEFINE d == CheckedIn(s.dcu, code)
           e == d.log[1]
           old == s.dcu
<1>1. s \in ManagerStates /\ IsDcu(old) /\ EntriesOK(s) /\ PlanOK(s) /\ ManagerBase(s)
  BY DEF ManagerInv, ManagerBase
<1>2. /\ IsDcu(d) /\ d.rtc = old.rtc /\ Turned(d.log, old.log, code)
      /\ \/ e.status = "FINISHED" /\ e.counter = 0
         \/ \E j \in 1..LogMax :
              /\ old.log[j].code = code /\ e.status = old.log[j].status
              /\ old.log[j].status # "FINISHED"
              /\ e.counter = IF old.log[j].status = "PROGRESS"
                             THEN old.log[j].counter + 1 ELSE old.log[j].counter
  BY <1>1, CheckedInFacts
<1>3. in = [s EXCEPT !.dcu = d]
  OBVIOUS
<1> HIDE DEF d, old
<1>4. in \in ManagerStates /\ in.dcu = d /\ SamePlan(s, in) /\ in.asked = s.asked
  BY <1>1, <1>2, <1>3 DEF ManagerStates, SamePlan, IsDcu
<1>5. e.code = code /\ e \in LogEntry /\ e.counter \in Nat
  <2>1. e.code = code /\ IsLog(d.log)
    BY <1>2 DEF Turned, IsDcu
  <2>2. e \in LogEntry
    BY <2>1, LogEntries
  <2> QED BY <2>1, <2>2, EntryFields
<1>6. \A f : EntryOK(in, f) <=> EntryOK(s, f)
  BY <1>4, SamePlanKeeps
<1>7. PlanOK(in) /\ ManagerBase(in)
  <2>1. PlanOK(in)
    BY <1>1, <1>4, SamePlanKeeps
  <2> QED BY <1>1, <1>2, <1>4, <2>1 DEF ManagerBase, SamePlan
<1>8. OthersOK(in, code)
  <2> SUFFICES ASSUME NEW i \in 1..LogMax, d.log[i].code # code PROVE EntryOK(s, d.log[i])
    BY <1>4, <1>6 DEF OthersOK
  <2>1. i \in 2..LogMax
    <3>1. i # 1
      BY <1>5
    <3> QED BY <1>2, <3>1, LogEntries DEF Turned
  <2>2. PICK j \in 1..LogMax : d.log[i] = old.log[j]
    BY <1>2, <2>1 DEF Turned
  <2> QED BY <1>1, <2>2 DEF EntriesOK, old
<1>9. ASSUME NEW j \in 1..LogMax, old.log[j].code = code, old.log[j].status # "FINISHED", e.status = old.log[j].status,
             e.counter = IF old.log[j].status = "PROGRESS" THEN old.log[j].counter + 1 ELSE old.log[j].counter
      PROVE  /\ MayExecute(d) => DoneBefore(in, code, e.counter)
             /\ ~MayExecute(d) => EntryOK(s, e)
  <2> DEFINE f == old.log[j]
  <2>1. EntryOK(in, f) /\ EntryOK(s, f)
    BY <1>1, <1>6 DEF EntriesOK, old
  <2>2. f.counter \in Nat
    <3>1. f \in LogEntry
      BY <1>1, LogEntries DEF IsDcu
    <3> QED BY <3>1, EntryFields
  <2>3. CASE e.status = "PROGRESS"
    <3>1. e.counter = f.counter + 1 /\ f.status = "PROGRESS" /\ f.code = code
      BY <1>9, <2>3
    <3>2. e.counter > 0 /\ e.counter - 1 = f.counter
      BY <2>2, <3>1
    <3>3. DoneBefore(in, code, e.counter)
      BY <2>1, <3>1, <3>2 DEF DoneBefore, EntryOK
    <3>4. MayExecute(d)
      BY <2>3 DEF MayExecute
    <3> QED BY <3>3, <3>4
  <2>4. CASE e.status # "PROGRESS"
    <3>1. ~MayExecute(d) /\ e.counter = f.counter
      BY <1>9, <2>4 DEF MayExecute
    <3>2. f.counter <= Bound(code)
      BY <1>9, <2>1, EntryBound
    <3>3. EntryOK(s, e)
      BY <1>5, <2>4, <3>1, <3>2, EntryBound
    <3> QED BY <3>1, <3>3
  <2> QED BY <2>3, <2>4
<1>10. /\ MayExecute(d) => DoneBefore(in, code, e.counter)
       /\ ~MayExecute(d) => EntryOK(s, e)
  <2>1. CASE e.status = "FINISHED" /\ e.counter = 0
    BY <2>1 DEF MayExecute, DoneBefore
  <2>2. CASE ~(e.status = "FINISHED" /\ e.counter = 0)
    BY <1>2, <1>9, <2>2
  <2> QED BY <2>1, <2>2
<1>11. ASSUME ~MayExecute(d) PROVE ManagerInv(in)
  BY <1>2, <1>3, <1>10, <1>11, DcuStep DEF old
<1> QED
  BY <1>4, <1>5, <1>7, <1>8, <1>10, <1>11 DEF CheckedInState

\* What an entry in progress says.
GoesOn(s, code, n) ==
    /\ code \in Roles => ClearInProgress(s, code, n)
    /\ code = "INIT" => InitInProgress(s, n)

\* A part is done and the log is as the check-in left it.
PartDone(s, t, code) ==
    /\ t.dcu = s.dcu /\ ManagerBase(t) /\ PlanOK(t) /\ LogKept(s, t, code)

\* DCU_register_next: the command is in progress, or aborted if the list of real time commands is full.
LEMMA NextPart ==
  ASSUME NEW s, NEW code \in Codes, CheckedInState(s, code), NEW t, PartDone(s, t, code),
         NEW n \in Nat, n = s.dcu.log[1].counter, n <= Bound(code), GoesOn(t, code, n)
  PROVE  ManagerInv(Next_(t, code))
<1> DEFINE d == NextRegistered(t.dcu, code)
           c == IF Len(d.rtc) > Len(t.dcu.rtc) THEN t.cut \ {code} ELSE t.cut
           u == Next_(t, code)
<1>1. t.dcu = s.dcu /\ ManagerBase(t) /\ PlanOK(t) /\ LogKept(s, t, code) /\ IsDcu(t.dcu) /\ t \in ManagerStates
      /\ s.dcu.log[1].code = code
  BY DEF PartDone, ManagerBase, CheckedInState
<1>2. /\ IsDcu(d) /\ Turned(d.log, s.dcu.log, code) /\ d.log[1].status \in {"PROGRESS", "ABORTED_BY_ERR"}
      /\ d.log[1].counter = n
  BY <1>1, NextRegisteredFacts
<1>3. c \in SUBSET Codes
  BY <1>1, ManagerFields
<1>4. u = [t EXCEPT !.dcu = d, !.cut = c]
  BY DEF Next_
<1> HIDE DEF d, c, u
<1>5. u \in ManagerStates /\ u.dcu = d /\ SamePlan(t, u) /\ u.asked = t.asked
  BY <1>1, <1>2, <1>3, <1>4 DEF ManagerStates, SamePlan, IsDcu
<1>6. ManagerBase(u)
  BY <1>1, <1>2, <1>5 DEF ManagerBase, SamePlan
<1>7. PlanOK(u)
  BY <1>1, <1>5, SamePlanKeeps
<1>8. d.log[1].code = code
  BY <1>2 DEF Turned
<1>9. EntryOK(t, d.log[1])
  BY <1>2, <1>8, BoundFacts DEF EntryOK, GoesOn
<1>10. ManagerInv(u)
  BY <1>1, <1>2, <1>5, <1>6, <1>7, <1>9, ExecutionEnds
<1> QED
  BY <1>10 DEF u

\* DCU_report_finish.
LEMMA LastPart ==
  ASSUME NEW s, NEW code \in Codes, CheckedInState(s, code), NEW t, t.dcu = Finished(s.dcu, code),
         t \in ManagerStates,
         t.disturbed \subseteq t.partly, \A r \in Roles : t.num[r] <= RoleCells(r),
         PlanOK(t), LogKept(s, t, code), s.dcu.log[1].counter <= Bound(code)
  PROVE  ManagerInv(t)
<1> DEFINE d == Finished(s.dcu, code)
<1>1. s.dcu.log[1].code = code /\ IsDcu(s.dcu)
  BY DEF CheckedInState, ManagerBase
<1>2. d = WithStatus(s.dcu, code, "FINISHED")
  BY DEF Finished
<1>3. "FINISHED" \in Statuses
  BY DEF Statuses
<1>4. /\ IsDcu(d) /\ d.rtc = s.dcu.rtc /\ Turned(d.log, s.dcu.log, code)
      /\ d.log[1].status = "FINISHED" /\ d.log[1].counter = s.dcu.log[1].counter
  BY <1>1, <1>2, <1>3, WithStatusFacts
<1> HIDE DEF d
<1>5. t.dcu = d
  BY DEF d
<1>6. ManagerBase(t)
  BY <1>4, <1>5 DEF ManagerBase, IsDcu
<1>7. d.log[1].code = code
  BY <1>4 DEF Turned
<1>8. EntryOK(t, d.log[1])
  BY <1>4, <1>7, EntryBound
<1>9. SamePlan(t, t)
  BY DEF SamePlan
<1> QED
  BY <1>4, <1>5, <1>6, <1>8, <1>9, ExecutionEnds

\* TLM_MGR_clear_bc_to_nop_ leaves a cleared block.
LEMMA NopCellsAreCells == NopCells \in [CellNumbers -> TelemetryCell]
BY DEF NopCells, Cell, TelemetryCell

LEMMA EmptyTableFacts ==
  /\ EmptyTable \in [BlockNumbers -> [CellNumbers -> Commands \cup {Unregistered}]]
  /\ \A b \in BlockNumbers : /\ EmptyTable[b] \in [CellNumbers -> Commands \cup {Unregistered}]
                             /\ \A i \in CellNumbers : EmptyTable[b][i] = Unregistered
  /\ \A i \in CellNumbers : NopCells[i].cmd = NopCmd /\ NopCells[i].ti = i
BY DEF EmptyTable, NopCells, Cell

\* A block that is cleared, as the manager sees it.
BlockIsCleared(s, b, t) ==
    /\ t \in ManagerStates /\ t.dcu = s.dcu /\ t.known = s.known /\ t.inited = s.inited /\ t.num = s.num
    /\ t.elem = s.elem /\ t.partly = s.partly /\ t.disturbed = s.disturbed /\ t.asked = s.asked
    /\ t.cut = s.cut /\ t.cells[b] = NopCells /\ \A a \in BlockNumbers \ {b} : t.cells[a] = s.cells[a]

LEMMA BlockClearedFacts ==
  ASSUME NEW s \in ManagerStates, NEW b \in BlockNumbers
  PROVE  BlockIsCleared(s, b, BlockToNop(s, b))
<1> DEFINE t == BlockToNop(s, b)
<1>1. t = [s EXCEPT !.cells[b] = NopCells]
  BY DEF BlockToNop, NopCells
<1>2. s.cells \in [BlockNumbers -> [CellNumbers -> TelemetryCell]]
  BY ManagerFields
<1> DEFINE filled == [s.cells EXCEPT ![b] = NopCells]
<1>3. filled \in [BlockNumbers -> [CellNumbers -> TelemetryCell]] /\ filled[b] = NopCells
      /\ \A a \in BlockNumbers \ {b} : filled[a] = s.cells[a]
  BY <1>2, NopCellsAreCells
<1>4. t = [s EXCEPT !.cells = filled]
  BY <1>1
<1> HIDE DEF filled, t
<1>5. BlockIsCleared(s, b, t)
  BY <1>3, <1>4 DEF ManagerStates, BlockIsCleared
<1> QED
  BY <1>5 DEF t

\* Clearing blocks of a role takes nothing from what the entries of the other commands say.
MoreCleared(s, t, r) ==
    /\ t.known = s.known /\ t.inited = s.inited /\ (s.num = [a \in Roles |-> 0] => t.num = s.num)
    /\ (s.elem = EmptyTable => t.elem = s.elem)
    /\ \A b \in BlockNumbers : /\ IsCleared(s, b) => IsCleared(t, b)
                               /\ s.cells[b] = NopCells => t.cells[b] = NopCells
    /\ \A a \in Roles \ {r} : (a \in t.partly <=> a \in s.partly) /\ (a \in t.disturbed <=> a \in s.disturbed)

LEMMA MoreClearedKeeps ==
  ASSUME NEW s, NEW t, NEW r \in Roles, MoreCleared(s, t, r)
  PROVE  OthersKept(s, t, r)
<1> SUFFICES ASSUME NEW e \in LogEntry, e.code # r, EntryOK(s, e) PROVE EntryOK(t, e)
  BY DEF OthersKept
<1>1. ASSUME e.code \in Roles, e.status = "PROGRESS" PROVE ClearInProgress(t, e.code, e.counter)
  <2> DEFINE a == e.code
             c == e.counter
  <2>1. ClearInProgress(s, a, c) /\ a \in Roles \ {r}
    BY <1>1 DEF EntryOK
  <2>2. c \in Nat
    BY EntryFields
  <2>3. ASSUME NEW k \in 1..(c + 1), a \notin t.disturbed PROVE IsCleared(t, BlocksOf(a)[k])
    <3>1. IsCleared(s, BlocksOf(a)[k])
      BY <2>1, <2>3 DEF ClearInProgress, MoreCleared
    <3>2. k \in 1..Len(BlocksOf(a))
      BY <2>1, <2>2, BlocksOfRole DEF ClearInProgress
    <3>3. BlocksOf(a)[k] \in BlockNumbers
      BY <2>1, <3>2, BlocksOfRole
    <3> QED BY <3>1, <3>3 DEF MoreCleared
  <2> QED BY <2>1, <2>3 DEF ClearInProgress, MoreCleared
<1>2. ASSUME e.code = "INIT", e.status = "PROGRESS" PROVE InitInProgress(t, e.counter)
  <2> DEFINE c == e.counter
  <2>1. InitInProgress(s, c)
    BY <1>2 DEF EntryOK
  <2>2. c \in Nat
    BY EntryFields
  <2>3. BlockNumbers = 1..Len(BlockRoles) /\ Len(BlockRoles) \in Nat
    BY ManagerAssumption DEF BlockNumbers
  <2>4. ASSUME NEW b \in 1..(c - 1) PROVE t.cells[b] = NopCells
    <3>1. b \in BlockNumbers
      BY <2>1, <2>2, <2>3 DEF InitInProgress
    <3> QED BY <2>1, <3>1 DEF InitInProgress, MoreCleared
  <2> QED BY <2>1, <2>4 DEF InitInProgress, MoreCleared
<1> QED
  BY <1>1, <1>2 DEF EntryOK

\* A cleared block matches the table and holds none of the role's commands.
LEMMA ClearedRole ==
  ASSUME NEW s \in ManagerStates, NEW r \in Roles,
         \A k \in 1..Len(BlocksOf(r)) : IsCleared(s, BlocksOf(r)[k])
  PROVE  /\ \A k \in 0..(RoleCells(r) - 1) :
               ElemAt(s, Slot(r, k)) = Unregistered /\ CellAt(s, Slot(r, k)).cmd = NopCmd
         /\ \A c \in Commands : Cardinality(SentAt(s, r, c)) = 0
         /\ \A b \in BlockNumbers, i \in CellNumbers : BlockRoles[b] = r =>
               s.elem[b][i] = Unregistered /\ s.cells[b][i].cmd = NopCmd /\ s.cells[b][i].ti = i
<1>1. ASSUME NEW b \in BlockNumbers, NEW i \in CellNumbers, BlockRoles[b] = r
      PROVE s.elem[b][i] = Unregistered /\ s.cells[b][i].cmd = NopCmd /\ s.cells[b][i].ti = i
  <2>1. PICK k \in 1..Len(BlocksOf(r)) : BlocksOf(r)[k] = b
    BY <1>1, BlocksOfRole
  <2>2. IsCleared(s, b)
    BY <2>1
  <2> QED BY <2>2, EmptyTableFacts DEF IsCleared
<1>2. ASSUME NEW k \in 0..(RoleCells(r) - 1)
      PROVE ElemAt(s, Slot(r, k)) = Unregistered /\ CellAt(s, Slot(r, k)).cmd = NopCmd
  <2>1. /\ Slot(r, k).block \in BlockNumbers /\ Slot(r, k).cell \in CellNumbers
        /\ BlockRoles[Slot(r, k).block] = r
    BY SlotFacts
  <2> QED BY <1>1, <2>1 DEF ElemAt, CellAt
<1>3. ASSUME NEW c \in Commands PROVE Cardinality(SentAt(s, r, c)) = 0
  <2>1. NopCmd # c
    BY ManagerAssumption
  <2>2. SentAt(s, r, c) = {}
    BY <1>2, <2>1 DEF SentAt
  <2> QED BY <2>2, FS_EmptySet
<1> QED
  BY <1>1, <1>2, <1>3

\* TLM_MGR_clear_cmds_based_on_role_, the last execution.
LEMMA ClearingEnds ==
  ASSUME NEW s, NEW r \in Roles, CheckedInState(s, r), NEW n \in Nat, n = s.dcu.log[1].counter,
         DoneBefore(s, r, n), n = Size(s, r)
  PROVE  ManagerInv(RoleCleared(s, r))
<1> DEFINE d == Finished(s.dcu, r)
           num == [s.num EXCEPT ![r] = 0]
           whole == r \notin s.disturbed
           asked == IF whole THEN [s.asked EXCEPT ![r] = NothingAsked] ELSE s.asked
           partly == IF whole THEN s.partly \ {r} ELSE s.partly
           t == RoleCleared(s, r)
<1>1. s \in ManagerStates /\ IsDcu(s.dcu) /\ PlanOK(s) /\ ManagerBase(s)
  BY DEF CheckedInState, ManagerBase
<1>2. t = [s EXCEPT !.num = num, !.dcu = d, !.asked = asked, !.partly = partly]
  <2>1. CASE whole
    BY <1>1, <2>1 DEF RoleCleared, ManagerStates
  <2>2. CASE ~whole
    <3>1. t = [s EXCEPT !.num[r] = 0, !.dcu = Finished(@, r)]
      BY <2>2 DEF RoleCleared
    <3> QED BY <1>1, <2>2, <3>1 DEF ManagerStates
  <2> QED BY <2>1, <2>2
<1>3. "FINISHED" \in Statuses /\ r \in Codes /\ d = WithStatus(s.dcu, r, "FINISHED")
  BY DEF Statuses, Codes, Finished
<1>4. IsDcu(d)
  BY <1>1, <1>3, WithStatusFacts
<1>5. /\ s.num \in [Roles -> Nat] /\ s.asked \in [Roles -> [Commands -> Nat]] /\ s.partly \in SUBSET Roles
      /\ NothingAsked \in [Commands -> Nat]
  BY <1>1, ManagerFields DEF NothingAsked
<1>6. num \in [Roles -> Nat] /\ asked \in [Roles -> [Commands -> Nat]] /\ partly \in SUBSET Roles
  BY <1>5
<1>7. /\ \A a \in Roles : num[a] = IF a = r THEN 0 ELSE s.num[a]
      /\ \A a \in Roles : asked[a] = IF whole /\ a = r THEN NothingAsked ELSE s.asked[a]
      /\ \A a \in Roles \ {r} : a \in partly <=> a \in s.partly
      /\ whole => r \notin partly
      /\ ~whole => partly = s.partly
  BY <1>5
<1> HIDE DEF d, num, asked, partly, t
<1>8. /\ t \in ManagerStates /\ t.dcu = d /\ t.num = num /\ t.asked = asked /\ t.partly = partly
      /\ t.known = s.known /\ t.inited = s.inited /\ t.elem = s.elem /\ t.cells = s.cells
      /\ t.disturbed = s.disturbed
  BY <1>1, <1>2, <1>4, <1>6 DEF ManagerStates, IsDcu
<1>9. t.disturbed \subseteq t.partly
  <2>1. s.disturbed \subseteq s.partly /\ s.partly \subseteq Roles
    BY <1>1, <1>5 DEF ManagerBase
  <2> QED BY <1>7, <1>8, <2>1
<1>10. \A a \in Roles : t.num[a] <= RoleCells(a)
  <2> SUFFICES ASSUME NEW a \in Roles PROVE num[a] <= RoleCells(a)
    BY <1>8
  <2>1. RoleCells(a) \in Nat /\ s.num[a] <= RoleCells(a)
    BY <1>1, SlotFacts DEF ManagerBase
  <2> QED BY <1>7, <2>1
<1>11. LogKept(s, t, r)
  <2>1. s.num = [a \in Roles |-> 0] => num = s.num
    BY DEF num
  <2>2. MoreCleared(s, t, r)
    BY <1>7, <1>8, <2>1 DEF MoreCleared, IsCleared
  <2> QED BY <2>2, MoreClearedKeeps, KeptOthers
<1>12. ASSUME s.inited PROVE s.known /\ AllMatch(s) /\ \A a \in Roles \ s.partly : Packed(s, a) /\ AsAsked(s, a)
  BY <1>1, <1>12 DEF PlanOK
<1>13. ASSUME s.inited, whole PROVE \A k \in 1..Len(BlocksOf(r)) : IsCleared(s, BlocksOf(r)[k])
  <2>1. n = Len(BlocksOf(r)) /\ n > 0
    BY <1>12, <1>13, BlocksOfRole DEF Size
  <2>2. ClearInProgress(s, r, n - 1) /\ (n - 1) + 1 = n
    BY <2>1 DEF DoneBefore
  <2> QED BY <1>13, <2>1, <2>2 DEF ClearInProgress
<1>14. ASSUME s.inited PROVE AllMatch(t)
  <2> SUFFICES ASSUME NEW b \in BlockNumbers, NEW i \in CellNumbers PROVE CellMatches(t, b, i)
    BY DEF AllMatch
  <2>1. CellMatches(s, b, i)
    BY <1>12, <1>14 DEF AllMatch
  <2>2. CASE whole /\ BlockRoles[b] = r
    <3>1. s.elem[b][i] = Unregistered /\ s.cells[b][i].cmd = NopCmd /\ s.cells[b][i].ti = i
      BY <1>1, <1>13, <1>14, <2>2, ClearedRole
    <3> QED BY <1>8, <3>1 DEF CellMatches
  <2>3. CASE ~(whole /\ BlockRoles[b] = r)
    <3>1. BlockRoles[b] \in s.partly => BlockRoles[b] \in partly
      BY <1>5, <1>7, <2>3
    <3> QED BY <1>8, <2>1, <3>1 DEF CellMatches
  <2> QED BY <2>2, <2>3
<1>15. ASSUME s.inited, NEW a \in Roles \ partly PROVE Packed(t, a) /\ AsAsked(t, a)
  <2>1. CASE a = r /\ whole
    <3>1. /\ \A k \in 0..(RoleCells(r) - 1) : ElemAt(s, Slot(r, k)) = Unregistered
          /\ \A c \in Commands : Cardinality(SentAt(s, r, c)) = 0
      BY <1>1, <1>13, <1>15, <2>1, ClearedRole
    <3>2. num[r] = 0 /\ \A c \in Commands : asked[r][c] = 0
      BY <1>7, <2>1 DEF NothingAsked
    <3>3. Packed(t, r)
      <4>1. \A k \in 0..(RoleCells(r) - 1) : ~(k < 0)
        BY SlotFacts
      <4> QED BY <1>8, <3>1, <3>2, <4>1 DEF Packed, ElemAt
    <3>4. AsAsked(t, r)
      BY <1>8, <3>1, <3>2 DEF AsAsked, SentAt, CellAt
    <3> QED BY <2>1, <3>3, <3>4
  <2>2. CASE ~(a = r /\ whole)
    <3>1. a \in Roles \ s.partly
      BY <1>7, <1>15, <2>2
    <3>2. a # r
      <4>1. s.disturbed \subseteq s.partly
        BY <1>1 DEF ManagerBase
      <4> QED BY <2>2, <3>1, <4>1
    <3>3. Packed(s, a) /\ AsAsked(s, a) /\ num[a] = s.num[a] /\ asked[a] = s.asked[a]
      BY <1>7, <1>12, <1>15, <3>1, <3>2
    <3> QED BY <1>8, <3>3 DEF Packed, AsAsked, SentAt, ElemAt, CellAt
  <2> QED BY <2>1, <2>2
<1>16. PlanOK(t)
  BY <1>8, <1>12, <1>14, <1>15 DEF PlanOK
<1>17. s.dcu.log[1].counter <= Bound(r)
  <2>1. Len(BlocksOf(r)) \in Nat /\ Bound(r) = Len(BlocksOf(r))
    BY <1>3, BlocksOfRole, BoundFacts
  <2> QED BY <2>1 DEF Size
<1>18. t.dcu = Finished(s.dcu, r)
  BY <1>8 DEF d
<1>19. ManagerInv(t)
  BY <1>3, <1>8, <1>9, <1>10, <1>11, <1>16, <1>17, <1>18, LastPart
<1> QED
  BY <1>19 DEF t

\* A cleared block, whose cells hold nothing of the table.
LEMMA RoleBlockStep ==
  ASSUME NEW s, NEW r \in Roles, CheckedInState(s, r), NEW n \in Nat, n = s.dcu.log[1].counter,
         s.known, n < Len(BlocksOf(r)), DoneBefore(s, r, n)
  PROVE  ManagerInv(RoleBlockCleared(s, r, n))
<1> DEFINE b == BlocksOf(r)[n + 1]
           k == BlockToNop(s, b)
           elem == [s.elem EXCEPT ![b] = EmptyTable[b]]
           partly == s.partly \cup {r}
           disturbed == IF n = 0 THEN s.disturbed \ {r} ELSE s.disturbed
           t == [k EXCEPT !.elem = elem, !.partly = partly, !.disturbed = disturbed]
<1>1. s \in ManagerStates /\ IsDcu(s.dcu) /\ PlanOK(s) /\ ManagerBase(s)
  BY DEF CheckedInState, ManagerBase
<1>2. n + 1 \in 1..Len(BlocksOf(r)) /\ b \in BlockNumbers /\ BlockRoles[b] = r /\ Len(BlocksOf(r)) \in Nat
  <2>1. Len(BlocksOf(r)) \in Nat
    BY BlocksOfRole
  <2>2. n + 1 \in 1..Len(BlocksOf(r))
    BY <2>1
  <2> QED BY <2>1, <2>2, BlocksOfRole
<1>22. k = BlockToNop(s, b)
  OBVIOUS
<1> HIDE DEF b, k, elem, partly, disturbed, t
<1>3. /\ k \in ManagerStates /\ k.dcu = s.dcu /\ k.known = s.known /\ k.inited = s.inited /\ k.num = s.num
      /\ k.elem = s.elem /\ k.partly = s.partly /\ k.disturbed = s.disturbed /\ k.asked = s.asked
      /\ k.cells[b] = NopCells /\ \A a \in BlockNumbers \ {b} : k.cells[a] = s.cells[a]
  <2>1. BlockIsCleared(s, b, k)
    BY <1>1, <1>2, <1>22, BlockClearedFacts
  <2> QED BY <2>1 DEF BlockIsCleared
<1>4. /\ s.elem \in [BlockNumbers -> [CellNumbers -> Commands \cup {Unregistered}]]
      /\ s.partly \in SUBSET Roles /\ s.disturbed \in SUBSET Roles
  BY <1>1, ManagerFields
<1>5. /\ elem \in [BlockNumbers -> [CellNumbers -> Commands \cup {Unregistered}]]
      /\ elem[b] = EmptyTable[b] /\ \A a \in BlockNumbers \ {b} : elem[a] = s.elem[a]
      /\ partly \in SUBSET Roles /\ disturbed \in SUBSET Roles
  BY <1>2, <1>4, EmptyTableFacts DEF elem, partly, disturbed
<1>6. /\ r \in partly /\ \A a \in Roles : a \in s.partly => a \in partly
      /\ \A a \in Roles \ {r} : (a \in partly <=> a \in s.partly) /\ (a \in disturbed <=> a \in s.disturbed)
      /\ n # 0 => disturbed = s.disturbed
      /\ s.disturbed \subseteq s.partly => disturbed \subseteq partly
  BY DEF partly, disturbed
<1>7. RoleBlockCleared(s, r, n) = Next_(t, r)
  BY <1>3, <1>1 DEF RoleBlockCleared, b, k, elem, partly, disturbed, t, ManagerStates
<1>8. /\ t \in ManagerStates /\ t.dcu = s.dcu /\ t.num = s.num /\ t.asked = s.asked /\ t.partly = partly
      /\ t.known = s.known /\ t.inited = s.inited /\ t.elem = elem /\ t.cells = k.cells
      /\ t.disturbed = disturbed
  BY <1>3, <1>5 DEF ManagerStates, t
<1>9. IsCleared(t, b) /\ \A a \in BlockNumbers \ {b} : t.elem[a] = s.elem[a] /\ t.cells[a] = s.cells[a]
  BY <1>3, <1>5, <1>8 DEF IsCleared
<1>10. MoreCleared(s, t, r)
  <2>1. ASSUME NEW a \in BlockNumbers
        PROVE (IsCleared(s, a) => IsCleared(t, a)) /\ (s.cells[a] = NopCells => t.cells[a] = NopCells)
    BY <1>9 DEF IsCleared
  <2>2. s.elem = EmptyTable => t.elem = s.elem
    BY <1>2, <1>4, <1>8 DEF elem
  <2> QED BY <1>6, <1>8, <2>1, <2>2 DEF MoreCleared
<1>11. LogKept(s, t, r)
  BY <1>10, MoreClearedKeeps, KeptOthers
<1>12. ManagerBase(t)
  BY <1>1, <1>6, <1>8 DEF ManagerBase
<1>13. ASSUME s.inited PROVE s.known /\ AllMatch(s) /\ \A a \in Roles \ s.partly : Packed(s, a) /\ AsAsked(s, a)
  BY <1>1, <1>13 DEF PlanOK
<1>14. ASSUME s.inited, NEW a \in BlockNumbers, NEW i \in CellNumbers PROVE CellMatches(t, a, i)
  <2>1. CASE a = b
    <3>1. t.elem[a][i] = Unregistered /\ t.cells[a][i].cmd = NopCmd /\ t.cells[a][i].ti = i
      BY <1>2, <1>9, <2>1, EmptyTableFacts DEF IsCleared
    <3> QED BY <3>1 DEF CellMatches
  <2>2. CASE a # b
    <3>1. CellMatches(s, a, i)
      BY <1>13, <1>14 DEF AllMatch
    <3>2. BlockRoles[a] \in s.partly => BlockRoles[a] \in partly
      BY <1>4, <1>6
    <3> QED BY <1>8, <1>9, <2>2, <3>1, <3>2 DEF CellMatches
  <2> QED BY <2>1, <2>2
<1>15. ASSUME s.inited, NEW a \in Roles \ partly PROVE Packed(t, a) /\ AsAsked(t, a)
  <2>1. a \in Roles \ s.partly /\ a # r
    BY <1>6, <1>15
  <2>2. Packed(s, a) /\ AsAsked(s, a)
    BY <1>13, <1>15, <2>1
  <2>3. ASSUME NEW j \in 0..(RoleCells(a) - 1)
        PROVE ElemAt(t, Slot(a, j)) = ElemAt(s, Slot(a, j)) /\ CellAt(t, Slot(a, j)) = CellAt(s, Slot(a, j))
    <3>1. Slot(a, j).block \in BlockNumbers /\ BlockRoles[Slot(a, j).block] = a
      BY <2>1, SlotFacts
    <3>2. Slot(a, j).block # b
      BY <1>2, <2>1, <3>1
    <3> QED BY <1>9, <3>1, <3>2 DEF ElemAt, CellAt
  <2>4. Packed(t, a)
    BY <1>8, <2>2, <2>3 DEF Packed
  <2>5. \A c \in Commands : SentAt(t, a, c) = SentAt(s, a, c)
    BY <2>3 DEF SentAt
  <2>6. AsAsked(t, a)
    BY <1>8, <2>2, <2>5 DEF AsAsked
  <2> QED BY <2>4, <2>6
<1>16. PlanOK(t)
  BY <1>8, <1>13, <1>14, <1>15 DEF PlanOK, AllMatch
<1>17. ClearInProgress(t, r, n)
  <2>1. ASSUME r \notin disturbed, NEW j \in 1..(n + 1) PROVE IsCleared(t, BlocksOf(r)[j])
    <3>1. CASE j = n + 1
      BY <1>9, <3>1 DEF b
    <3>2. CASE j # n + 1
      <4>1. j \in 1..n /\ n # 0 /\ n > 0
        BY <3>2
      <4>2. ClearInProgress(s, r, n - 1) /\ (n - 1) + 1 = n
        BY <4>1 DEF DoneBefore
      <4>3. IsCleared(s, BlocksOf(r)[j])
        BY <1>6, <2>1, <4>1, <4>2 DEF ClearInProgress
      <4>4. j \in 1..Len(BlocksOf(r))
        BY <1>2, <4>1
      <4>5. BlocksOf(r)[j] \in BlockNumbers
        BY <4>4, BlocksOfRole
      <4> QED BY <1>10, <4>3, <4>5 DEF MoreCleared
    <3> QED BY <3>1, <3>2
  <2> QED BY <1>6, <1>8, <2>1 DEF ClearInProgress
<1>18. r \in Codes /\ r # "INIT" /\ n <= Bound(r)
  <2>1. r \in Codes /\ r # "INIT"
    BY ManagerAssumption DEF Codes
  <2> QED BY <1>2, <2>1, BoundFacts
<1>19. PartDone(s, t, r)
  BY <1>8, <1>11, <1>12, <1>16 DEF PartDone
<1>20. GoesOn(t, r, n)
  BY <1>17, <1>18 DEF GoesOn
<1>21. ManagerInv(Next_(t, r))
  BY <1>18, <1>19, <1>20, NextPart
<1> QED
  BY <1>7, <1>21

\* TLM_MGR_clear_cmds_based_on_role_.
LEMMA ClearExecutedKeeps ==
  ASSUME NEW s, ManagerInv(s), NEW r \in Roles
  PROVE  ManagerInv(ClearExecuted(s, r))
<1> DEFINE in == [s EXCEPT !.dcu = CheckedIn(@, r)]
           n == in.dcu.log[1].counter
<1>1. r \in Codes
  BY DEF Codes
<1>2. /\ CheckedInState(in, r) /\ SamePlan(s, in) /\ n \in Nat
      /\ MayExecute(in.dcu) => DoneBefore(in, r, n)
      /\ ~MayExecute(in.dcu) => ManagerInv(in)
  BY <1>1, CommandChecksIn
<1>3. ClearExecuted(s, r) =
        CASE ~MayExecute(in.dcu) -> in
          [] MayExecute(in.dcu) /\ AllCleared(s, r, n) -> RoleCleared(in, r)
          [] MayExecute(in.dcu) /\ ~AllCleared(s, r, n) -> RoleBlockCleared(in, r, n)
  BY DEF ClearExecuted
<1> DEFINE u == ClearExecuted(s, r)
<1>4. n = Size(s, r) <=> n = Size(in, r)
  BY <1>2 DEF SamePlan, Size
<1>5. n = in.dcu.log[1].counter
  OBVIOUS
<1> HIDE DEF in, n, u
<1>6. CASE ~MayExecute(in.dcu)
  <2>1. u = in
    BY <1>3, <1>6 DEF u
  <2> QED BY <1>2, <1>6, <2>1 DEF u
<1>7. CASE MayExecute(in.dcu) /\ AllCleared(s, r, n)
  <2>1. u = RoleCleared(in, r)
    BY <1>3, <1>7 DEF u
  <2>2. n = Size(in, r)
    BY <1>4, <1>7 DEF AllCleared
  <2>3. ManagerInv(RoleCleared(in, r))
    BY <1>2, <1>5, <1>7, <2>2, ClearingEnds
  <2> QED BY <2>1, <2>3 DEF u
<1>8. CASE MayExecute(in.dcu) /\ ~AllCleared(s, r, n)
  <2>1. u = RoleBlockCleared(in, r, n)
    BY <1>3, <1>8 DEF u
  <2>2. n # Size(in, r)
    BY <1>4, <1>8 DEF AllCleared
  <2>3. Len(BlocksOf(r)) \in Nat /\ Len(BlocksOf(r)) > 0
    BY BlocksOfRole
  <2>4. in.known /\ n < Len(BlocksOf(r))
    <3>1. CASE n = 0
      BY <2>2, <2>3, <3>1 DEF Size
    <3>2. CASE n # 0
      <4>1. in.known /\ n - 1 < Len(BlocksOf(r))
        BY <1>2, <1>8, <3>2 DEF DoneBefore, ClearInProgress
      <4> QED BY <1>2, <2>2, <2>3, <4>1 DEF Size
    <3> QED BY <3>1, <3>2
  <2>5. ManagerInv(RoleBlockCleared(in, r, n))
    BY <1>2, <1>5, <1>8, <2>4, RoleBlockStep
  <2> QED BY <2>1, <2>5 DEF u
<1> QED
  BY <1>6, <1>7, <1>8 DEF u

\* The manager after the part n of its initialization.
Prepared(t, n) ==
    /\ t.known /\ ~t.inited /\ t.num = [r \in Roles |-> 0] /\ t.elem = EmptyTable
    /\ \A b \in 1..(n - 1) : t.cells[b] = NopCells
    /\ ManagerBase(t)

\* The entries of the clearing commands stay true while the manager is initialized.
MorePrepared(s, t) ==
    /\ t.known /\ t.elem = EmptyTable /\ t.partly = s.partly /\ t.disturbed = s.disturbed
    /\ \A b \in BlockNumbers : IsCleared(s, b) => IsCleared(t, b)

LEMMA MorePreparedKeeps ==
  ASSUME NEW s, NEW t, MorePrepared(s, t)
  PROVE  OthersKept(s, t, "INIT")
<1> SUFFICES ASSUME NEW e \in LogEntry, e.code # "INIT", EntryOK(s, e) PROVE EntryOK(t, e)
  BY DEF OthersKept
<1>1. ASSUME e.code \in Roles, e.status = "PROGRESS" PROVE ClearInProgress(t, e.code, e.counter)
  <2> DEFINE a == e.code
             c == e.counter
  <2>1. ClearInProgress(s, a, c) /\ a \in Roles
    BY <1>1 DEF EntryOK
  <2>2. c \in Nat
    BY EntryFields
  <2>3. ASSUME NEW k \in 1..(c + 1), a \notin t.disturbed PROVE IsCleared(t, BlocksOf(a)[k])
    <3>1. IsCleared(s, BlocksOf(a)[k])
      BY <2>1, <2>3 DEF ClearInProgress, MorePrepared
    <3>2. k \in 1..Len(BlocksOf(a))
      BY <2>1, <2>2, BlocksOfRole DEF ClearInProgress
    <3>3. BlocksOf(a)[k] \in BlockNumbers
      BY <2>1, <3>2, BlocksOfRole
    <3> QED BY <3>1, <3>3 DEF MorePrepared
  <2> QED BY <2>1, <2>3 DEF ClearInProgress, MorePrepared
<1> QED
  BY <1>1 DEF EntryOK

\* TLM_MGR_clear_info_.
LEMMA InfoClearedFacts ==
  ASSUME NEW s, ManagerBase(s)
  PROVE  Prepared(InfoCleared(s), 0) /\ MorePrepared(s, InfoCleared(s)) /\ InfoCleared(s).dcu = s.dcu
<1> DEFINE num == [r \in Roles |-> 0]
           t == [s EXCEPT !.inited = FALSE, !.known = TRUE, !.num = num, !.elem = EmptyTable]
<1>1. s \in ManagerStates /\ IsDcu(s.dcu) /\ s.disturbed \subseteq s.partly
  BY DEF ManagerBase
<1>2. num \in [Roles -> Nat] /\ \A r \in Roles : num[r] = 0
  OBVIOUS
<1>3. InfoCleared(s) = t
  BY DEF InfoCleared
<1> HIDE DEF num
<1>4. /\ t \in ManagerStates /\ t.dcu = s.dcu /\ t.known /\ ~t.inited /\ t.num = num /\ t.elem = EmptyTable
      /\ t.cells = s.cells /\ t.partly = s.partly /\ t.disturbed = s.disturbed
  BY <1>1, <1>2, EmptyTableFacts DEF ManagerStates
<1> HIDE DEF t
<1>5. \A r \in Roles : t.num[r] <= RoleCells(r)
  BY <1>2, <1>4, SlotFacts
<1>6. ManagerBase(t)
  BY <1>1, <1>4, <1>5 DEF ManagerBase
<1>7. MorePrepared(s, t)
  BY <1>4 DEF MorePrepared, IsCleared
<1>8. Prepared(t, 0)
  BY <1>4, <1>6 DEF Prepared, num
<1> QED
  BY <1>3, <1>4, <1>7, <1>8

\* One part of the initialization.
LEMMA InitPartFacts ==
  ASSUME NEW s, CheckedInState(s, "INIT"), NEW n \in Nat, DoneBefore(s, "INIT", n)
  PROVE  /\ Prepared(InitPart(s, n), n) /\ n <= Len(BlockRoles) + 1
         /\ PartDone(s, InitPart(s, n), "INIT") /\ MorePrepared(s, InitPart(s, n))
<1> DEFINE t == InitPart(s, n)
<1>1. ManagerBase(s) /\ s \in ManagerStates
  BY DEF CheckedInState, ManagerBase
<1>2. BlockNumbers = 1..Len(BlockRoles) /\ Len(BlockRoles) \in Nat
  BY ManagerAssumption DEF BlockNumbers
<1>3. n # 0 => InitInProgress(s, n - 1)
  BY DEF DoneBefore
<1>4. Prepared(t, n) /\ MorePrepared(s, t) /\ t.dcu = s.dcu
  <2>1. CASE n = 0
    <3>1. t = InfoCleared(s)
      BY <2>1 DEF InitPart
    <3> QED BY <1>1, <2>1, <3>1, InfoClearedFacts
  <2>2. CASE n = 1
    <3>1. t = s
      BY <2>2 DEF InitPart
    <3>2. InitInProgress(s, 0)
      BY <1>3, <2>2
    <3>3. \A b \in 1..(n - 1) : FALSE
      BY <2>2
    <3> QED BY <1>1, <3>1, <3>2, <3>3 DEF InitInProgress, Prepared, MorePrepared
  <2>3. CASE n > 1
    <3> DEFINE b == n - 1
    <3>1. t = BlockToNop(s, b)
      BY <2>3 DEF InitPart
    <3>2. InitInProgress(s, b)
      BY <1>3, <2>3
    <3>3. b \in BlockNumbers
      BY <1>2, <2>3, <3>2 DEF InitInProgress
    <3>4. BlockIsCleared(s, b, t)
      BY <1>1, <3>1, <3>3, BlockClearedFacts
    <3>5. ManagerBase(t)
      BY <1>1, <3>4 DEF BlockIsCleared, ManagerBase
    <3>6. ASSUME NEW a \in 1..(n - 1) PROVE t.cells[a] = NopCells
      <4>1. CASE a = b
        BY <3>4, <4>1 DEF BlockIsCleared
      <4>2. CASE a # b
        <5>1. a \in 1..(b - 1) /\ a \in BlockNumbers
          BY <1>2, <3>3, <4>2
        <5>2. s.cells[a] = NopCells
          BY <3>2, <5>1 DEF InitInProgress
        <5> QED BY <3>4, <4>2, <5>1, <5>2 DEF BlockIsCleared
      <4> QED BY <4>1, <4>2
    <3>7. Prepared(t, n)
      BY <3>2, <3>4, <3>5, <3>6 DEF Prepared, InitInProgress, BlockIsCleared
    <3>8. \A a \in BlockNumbers : IsCleared(s, a) => IsCleared(t, a)
      BY <3>4 DEF IsCleared, BlockIsCleared
    <3>9. MorePrepared(s, t)
      BY <3>2, <3>4, <3>8 DEF MorePrepared, InitInProgress, BlockIsCleared
    <3> QED BY <3>4, <3>7, <3>9 DEF BlockIsCleared
  <2> QED BY <2>1, <2>2, <2>3
<1>5. n <= Len(BlockRoles) + 1
  <2>1. CASE n = 0
    BY <1>2, <2>1
  <2>2. CASE n # 0
    <3>1. n - 1 <= Len(BlockRoles)
      BY <1>3, <2>2 DEF InitInProgress
    <3> QED BY <1>2, <3>1
  <2> QED BY <2>1, <2>2
<1> HIDE DEF t
<1>6. LogKept(s, t, "INIT")
  BY <1>4, MorePreparedKeeps, KeptOthers
<1>7. PlanOK(t)
  BY <1>4 DEF Prepared, PlanOK
<1>8. PartDone(s, t, "INIT")
  BY <1>4, <1>6, <1>7 DEF PartDone, Prepared
<1> QED
  BY <1>4, <1>5, <1>8 DEF t

\* The end of the initialization: the plan is empty, and the roles whose clearing was in progress go on.
LEMMA InitEnds ==
  ASSUME NEW s, CheckedInState(s, "INIT"), NEW n, n = s.dcu.log[1].counter, n = Len(BlockRoles) + 1,
         NEW p, p.dcu = s.dcu, Prepared(p, n)
  PROVE  ManagerInv(InitDone(p))
<1> DEFINE d == Finished(p.dcu, "INIT")
           asked == [r \in Roles |-> NothingAsked]
           partly == {r \in Roles : InProgress(p.dcu, r)}
           t == InitDone(p)
<1>1. p \in ManagerStates /\ IsDcu(s.dcu) /\ ManagerBase(p) /\ ManagerBase(s)
  BY DEF CheckedInState, ManagerBase, Prepared
<1>2. BlockNumbers = 1..Len(BlockRoles) /\ Len(BlockRoles) \in Nat
  BY ManagerAssumption DEF BlockNumbers
<1>3. "FINISHED" \in Statuses /\ "INIT" \in Codes /\ d = WithStatus(p.dcu, "INIT", "FINISHED")
  BY DEF Statuses, Codes, Finished
<1>4. IsDcu(d)
  BY <1>1, <1>3, WithStatusFacts
<1>5. asked \in [Roles -> [Commands -> Nat]] /\ \A r \in Roles, c \in Commands : asked[r][c] = 0
  BY DEF NothingAsked
<1>6. partly \in SUBSET Roles
  OBVIOUS
<1>7. t = [p EXCEPT !.dcu = d, !.inited = TRUE, !.asked = asked, !.partly = partly, !.disturbed = {}]
  BY DEF InitDone
<1>8. \A r \in Roles : r \in partly <=> InProgress(s.dcu, r)
  OBVIOUS
<1> HIDE DEF d, asked, partly, t
<1>9. /\ t \in ManagerStates /\ t.dcu = d /\ t.num = p.num /\ t.asked = asked /\ t.partly = partly
      /\ t.known = p.known /\ t.inited /\ t.elem = p.elem /\ t.cells = p.cells /\ t.disturbed = {}
  BY <1>1, <1>4, <1>5, <1>6, <1>7 DEF ManagerStates, IsDcu
<1>10. \A b \in BlockNumbers : IsCleared(t, b)
  <2> SUFFICES ASSUME NEW b \in BlockNumbers PROVE IsCleared(t, b)
    OBVIOUS
  <2>1. b \in 1..(n - 1)
    BY <1>2
  <2> QED BY <1>9, <2>1 DEF Prepared, IsCleared
<1>11. ASSUME NEW r \in Roles
       PROVE  /\ \A k \in 0..(RoleCells(r) - 1) : ElemAt(t, Slot(r, k)) = Unregistered
              /\ \A c \in Commands : Cardinality(SentAt(t, r, c)) = 0
              /\ \A b \in BlockNumbers, i \in CellNumbers : BlockRoles[b] = r =>
                    t.elem[b][i] = Unregistered /\ t.cells[b][i].cmd = NopCmd /\ t.cells[b][i].ti = i
  <2>1. \A k \in 1..Len(BlocksOf(r)) : IsCleared(t, BlocksOf(r)[k])
    BY <1>10, BlocksOfRole
  <2> QED BY <1>9, <2>1, ClearedRole
<1>12. AllMatch(t)
  <2> SUFFICES ASSUME NEW b \in BlockNumbers, NEW i \in CellNumbers PROVE CellMatches(t, b, i)
    BY DEF AllMatch
  <2>1. BlockRoles[b] \in Roles
    BY <1>2, ManagerAssumption, ElementOfSeq
  <2>2. t.elem[b][i] = Unregistered /\ t.cells[b][i].cmd = NopCmd /\ t.cells[b][i].ti = i
    BY <1>11, <2>1
  <2> QED BY <2>2 DEF CellMatches
<1>13. ASSUME NEW r \in Roles PROVE Packed(t, r) /\ AsAsked(t, r)
  <2>1. t.num[r] = 0 /\ \A k \in 0..(RoleCells(r) - 1) : ~(k < 0)
    BY <1>9, SlotFacts DEF Prepared
  <2>2. Packed(t, r)
    BY <1>11, <2>1 DEF Packed
  <2>3. AsAsked(t, r)
    BY <1>5, <1>9, <1>11 DEF AsAsked
  <2> QED BY <2>2, <2>3
<1>14. PlanOK(t)
  BY <1>9, <1>12, <1>13 DEF PlanOK, Prepared
<1>15. LogKept(s, t, "INIT")
  <2> SUFFICES ASSUME NEW j \in 1..LogMax, s.dcu.log[j].code # "INIT" PROVE EntryOK(t, s.dcu.log[j])
    BY DEF LogKept
  <2> DEFINE e == s.dcu.log[j]
  <2>1. EntryOK(s, e)
    BY DEF CheckedInState, OthersOK
  <2>2. e \in LogEntry /\ e \in ToSet(s.dcu.log)
    <3>1. IsLog(s.dcu.log)
      BY <1>1 DEF IsDcu
    <3>2. DOMAIN s.dcu.log = 1..LogMax
      BY <3>1 DEF IsLog
    <3> QED BY <3>1, <3>2, LogEntries DEF ToSet
  <2> HIDE DEF e
  <2>3. ASSUME e.code \in Roles, e.status = "PROGRESS" PROVE ClearInProgress(t, e.code, e.counter)
    <3>1. e.code \in partly
      BY <1>8, <2>2, <2>3 DEF InProgress
    <3>2. e.counter < Len(BlocksOf(e.code)) /\ e.counter \in Nat
      BY <2>1, <2>2, <2>3, EntryFields DEF EntryOK, ClearInProgress
    <3>3. ASSUME NEW k \in 1..(e.counter + 1) PROVE IsCleared(t, BlocksOf(e.code)[k])
      <4>1. k \in 1..Len(BlocksOf(e.code))
        BY <2>3, <3>2, BlocksOfRole
      <4>2. BlocksOf(e.code)[k] \in BlockNumbers
        BY <2>3, <4>1, BlocksOfRole
      <4> QED BY <1>10, <4>2
    <3> QED BY <1>9, <3>1, <3>2, <3>3 DEF ClearInProgress, Prepared
  <2>4. e.code # "INIT"
    BY DEF e
  <2>5. EntryOK(t, e)
    BY <2>1, <2>3, <2>4 DEF EntryOK
  <2> QED BY <2>5 DEF e
<1>16. t.disturbed \subseteq t.partly /\ \A r \in Roles : t.num[r] <= RoleCells(r)
  BY <1>1, <1>9 DEF ManagerBase
<1>17. s.dcu.log[1].counter <= Bound("INIT")
  <2>1. Bound("INIT") = Len(BlockRoles) + 1
    BY <1>3, BoundFacts
  <2> QED BY <1>2, <2>1
<1>18. t.dcu = Finished(s.dcu, "INIT")
  BY <1>9 DEF d
<1>19. ManagerInv(t)
  BY <1>3, <1>9, <1>14, <1>15, <1>16, <1>17, <1>18, LastPart
<1> QED
  BY <1>19 DEF t

\* Cmd_TLM_MGR_INIT.
LEMMA InitExecutedKeeps ==
  ASSUME NEW s, ManagerInv(s)
  PROVE  ManagerInv(InitExecuted(s))
<1> DEFINE in == [s EXCEPT !.dcu = CheckedIn(@, "INIT")]
           n == in.dcu.log[1].counter
           t == InitPart(in, n)
           u == InitExecuted(s)
<1>1. "INIT" \in Codes
  BY DEF Codes
<1>2. /\ CheckedInState(in, "INIT") /\ n \in Nat
      /\ MayExecute(in.dcu) => DoneBefore(in, "INIT", n)
      /\ ~MayExecute(in.dcu) => ManagerInv(in)
  BY <1>1, CommandChecksIn
<1>3. u =
        CASE ~MayExecute(in.dcu) -> in
          [] MayExecute(in.dcu) /\ InitLast(n) -> InitDone(t)
          [] MayExecute(in.dcu) /\ ~InitLast(n) -> Next_(t, "INIT")
  BY DEF InitExecuted
<1>4. n = in.dcu.log[1].counter /\ t = InitPart(in, n)
  OBVIOUS
<1>5. Len(BlockRoles) \in Nat
  BY ManagerAssumption
<1> HIDE DEF in, n, u, t
<1>6. CASE ~MayExecute(in.dcu)
  <2>1. u = in
    BY <1>3, <1>6
  <2> QED BY <1>2, <1>6, <2>1 DEF u
<1>7. CASE MayExecute(in.dcu)
  <2>1. Prepared(t, n) /\ n <= Len(BlockRoles) + 1 /\ PartDone(in, t, "INIT")
    BY <1>2, <1>4, <1>7, InitPartFacts
  <2>2. CASE InitLast(n)
    <3>1. u = InitDone(t)
      BY <1>3, <1>7, <2>2
    <3>2. n = Len(BlockRoles) + 1 /\ t.dcu = in.dcu
      BY <2>1, <2>2 DEF InitLast, PartDone
    <3>3. ManagerInv(InitDone(t))
      BY <1>2, <1>4, <2>1, <3>2, InitEnds
    <3> QED BY <3>1, <3>3 DEF u
  <2>3. CASE ~InitLast(n)
    <3>1. u = Next_(t, "INIT")
      BY <1>3, <1>7, <2>3
    <3>2. n <= Len(BlockRoles) /\ n <= Bound("INIT")
      <4>1. Bound("INIT") = Len(BlockRoles) + 1
        BY <1>1, BoundFacts
      <4> QED BY <1>2, <1>5, <2>1, <2>3, <4>1 DEF InitLast
    <3>3. GoesOn(t, "INIT", n)
      <4>1. "INIT" \notin Roles
        BY ManagerAssumption
      <4> QED BY <2>1, <3>2, <4>1 DEF GoesOn, InitInProgress, Prepared
    <3>4. ManagerInv(Next_(t, "INIT"))
      BY <1>1, <1>2, <1>4, <2>1, <3>2, <3>3, NextPart
    <3> QED BY <3>1, <3>4 DEF u
  <2> QED BY <2>2, <2>3
<1> QED
  BY <1>6, <1>7 DEF u

\* One execution of a divided command.
LEMMA ExecutedKeeps ==
  ASSUME NEW s, ManagerInv(s), NEW code \in Codes
  PROVE  ManagerInv(Executed(s, code))
<1>1. CASE code = "INIT"
  BY <1>1, InitExecutedKeeps DEF Executed
<1>2. CASE code # "INIT"
  <2>1. code \in Roles
    BY <1>2 DEF Codes
  <2> QED BY <1>2, <2>1, ClearExecutedKeeps DEF Executed
<1> QED
  BY <1>1, <1>2

-----------------------------------------------------------------------------
(***************************************************************************)
(* The telemetry manager: registering and deleting.                        *)
(***************************************************************************)
\* One cell of a table is written.
Put(table, slot, x) == [table EXCEPT ![slot.block][slot.cell] = x]

IsPut(new, table, slot, x, X) ==
    /\ new \in [BlockNumbers -> [CellNumbers -> X]]
    /\ new[slot.block][slot.cell] = x
    /\ \A b \in BlockNumbers, i \in CellNumbers :
          ~(b = slot.block /\ i = slot.cell) => new[b][i] = table[b][i]
    /\ \A b \in BlockNumbers : b # slot.block => new[b] = table[b]

LEMMA PutFacts ==
  ASSUME NEW X, NEW table \in [BlockNumbers -> [CellNumbers -> X]],
         NEW slot \in [block : BlockNumbers, cell : CellNumbers], NEW x \in X
  PROVE  IsPut(Put(table, slot, x), table, slot, x, X)
<1> DEFINE b == slot.block
           i == slot.cell
           row == [table[b] EXCEPT ![i] = x]
           new == [table EXCEPT ![b] = row]
<1>1. b \in BlockNumbers /\ i \in CellNumbers
  OBVIOUS
<1>2. Put(table, slot, x) = new
  BY DEF Put
<1>3. row \in [CellNumbers -> X] /\ row[i] = x /\ \A j \in CellNumbers : j # i => row[j] = table[b][j]
  BY <1>1
<1> HIDE DEF b, i, row
<1>4. new \in [BlockNumbers -> [CellNumbers -> X]] /\ new[b] = row /\ \A a \in BlockNumbers : a # b => new[a] = table[a]
  BY <1>1, <1>3
<1> HIDE DEF new
<1>5. new[b][i] = x
  BY <1>3, <1>4
<1>6. ASSUME NEW a \in BlockNumbers, NEW j \in CellNumbers, ~(a = b /\ j = i) PROVE new[a][j] = table[a][j]
  BY <1>3, <1>4, <1>6
<1>7. IsPut(new, table, slot, x, X)
  BY <1>4, <1>5, <1>6 DEF IsPut, b, i
<1> QED
  BY <1>2, <1>7

\* Two places of a role are two cells.
LEMMA SlotsApart ==
  ASSUME NEW r \in Roles, NEW j \in 0..(RoleCells(r) - 1), NEW k \in 0..(RoleCells(r) - 1),
         Slot(r, j).block = Slot(r, k).block, Slot(r, j).cell = Slot(r, k).cell
  PROVE  j = k
<1>1. /\ Slot(r, j) \in [block : BlockNumbers, cell : CellNumbers]
      /\ Slot(r, k) \in [block : BlockNumbers, cell : CellNumbers]
  BY SlotFacts
<1>2. Slot(r, j) = Slot(r, k)
  BY <1>1
<1> QED
  BY <1>2, SlotFacts

\* A command that changes what one role sends, between two executions of any divided command.
RoleChanged(s, t, r) ==
    /\ t \in ManagerStates /\ t.dcu = s.dcu /\ t.known = s.known /\ t.inited = s.inited
    /\ t.partly = s.partly /\ t.disturbed = Disturbed(s, r)
    /\ \A b \in BlockNumbers : BlockRoles[b] # r => t.elem[b] = s.elem[b] /\ t.cells[b] = s.cells[b]
    /\ \A a \in Roles \ {r} : t.num[a] = s.num[a] /\ t.asked[a] = s.asked[a]

LEMMA RoleChangedKeeps ==
  ASSUME NEW s, ManagerInv(s), s.inited, NEW t, NEW r \in Roles, RoleChanged(s, t, r),
         t.num[r] <= RoleCells(r),
         \A b \in BlockNumbers, i \in CellNumbers : BlockRoles[b] = r => CellMatches(t, b, i),
         r \notin s.partly => Packed(t, r) /\ AsAsked(t, r)
  PROVE  ManagerInv(t)
<1>1. /\ s \in ManagerStates /\ IsDcu(s.dcu) /\ EntriesOK(s) /\ PlanOK(s) /\ s.disturbed \subseteq s.partly
      /\ \A a \in Roles : s.num[a] <= RoleCells(a)
  BY DEF ManagerInv, ManagerBase
<1>2. s.known /\ AllMatch(s) /\ \A a \in Roles \ s.partly : Packed(s, a) /\ AsAsked(s, a)
  BY <1>1 DEF PlanOK
<1>3. ManagerBase(t)
  <2>1. t.disturbed \subseteq t.partly
    BY <1>1 DEF RoleChanged, Disturbed
  <2>2. \A a \in Roles : t.num[a] <= RoleCells(a)
    BY <1>1 DEF RoleChanged
  <2> QED BY <1>1, <2>1, <2>2 DEF ManagerBase, RoleChanged
<1>4. EntriesOK(t)
  <2> SUFFICES ASSUME NEW i \in 1..LogMax PROVE EntryOK(t, s.dcu.log[i])
    BY DEF EntriesOK, RoleChanged
  <2> DEFINE e == s.dcu.log[i]
  <2>1. EntryOK(s, e) /\ e \in LogEntry
    BY <1>1, LogEntries DEF EntriesOK, IsDcu
  <2> HIDE DEF e
  <2>2. ~InitInProgress(s, e.counter)
    BY DEF InitInProgress
  <2>3. ASSUME e.code \in Roles, e.status = "PROGRESS" PROVE ClearInProgress(t, e.code, e.counter)
    <3> DEFINE a == e.code
               c == e.counter
    <3>1. ClearInProgress(s, a, c) /\ c \in Nat
      BY <2>1, <2>3, EntryFields DEF EntryOK
    <3>2. ASSUME a \notin t.disturbed, NEW k \in 1..(c + 1) PROVE IsCleared(t, BlocksOf(a)[k])
      <4>1. a # r /\ a \notin s.disturbed
        BY <3>1, <3>2 DEF RoleChanged, Disturbed, ClearInProgress
      <4>2. IsCleared(s, BlocksOf(a)[k])
        BY <3>1, <3>2, <4>1 DEF ClearInProgress
      <4>3. k \in 1..Len(BlocksOf(a))
        BY <2>3, <3>1, BlocksOfRole DEF ClearInProgress
      <4>4. BlocksOf(a)[k] \in BlockNumbers /\ BlockRoles[BlocksOf(a)[k]] = a
        BY <2>3, <4>3, BlocksOfRole
      <4> QED BY <4>1, <4>2, <4>4 DEF IsCleared, RoleChanged
    <3> QED BY <3>1, <3>2 DEF ClearInProgress, RoleChanged
  <2>4. EntryOK(t, e)
    BY <2>1, <2>2, <2>3 DEF EntryOK
  <2> QED BY <2>4 DEF e
<1>5. AllMatch(t)
  <2> SUFFICES ASSUME NEW b \in BlockNumbers, NEW i \in CellNumbers PROVE CellMatches(t, b, i)
    BY DEF AllMatch
  <2>1. CASE BlockRoles[b] # r
    <3>1. CellMatches(s, b, i)
      BY <1>2 DEF AllMatch
    <3> QED BY <2>1, <3>1 DEF CellMatches, RoleChanged
  <2> QED BY <2>1
<1>6. ASSUME NEW a \in Roles \ t.partly PROVE Packed(t, a) /\ AsAsked(t, a)
  <2>1. a \notin s.partly
    BY <1>6 DEF RoleChanged
  <2>2. CASE a # r
    <3>1. Packed(s, a) /\ AsAsked(s, a)
      BY <1>2, <2>1
    <3>2. ASSUME NEW j \in 0..(RoleCells(a) - 1)
          PROVE ElemAt(t, Slot(a, j)) = ElemAt(s, Slot(a, j)) /\ CellAt(t, Slot(a, j)) = CellAt(s, Slot(a, j))
      <4>1. Slot(a, j).block \in BlockNumbers /\ BlockRoles[Slot(a, j).block] = a
        BY SlotFacts
      <4> QED BY <2>2, <4>1 DEF ElemAt, CellAt, RoleChanged
    <3>3. t.num[a] = s.num[a] /\ t.asked[a] = s.asked[a]
      BY <2>2 DEF RoleChanged
    <3>4. Packed(t, a)
      BY <3>1, <3>2, <3>3 DEF Packed
    <3>5. \A c \in Commands : SentAt(t, a, c) = SentAt(s, a, c)
      BY <3>2 DEF SentAt
    <3>6. AsAsked(t, a)
      BY <3>1, <3>3, <3>5 DEF AsAsked
    <3> QED BY <3>4, <3>6
  <2> QED BY <2>1, <2>2
<1>7. PlanOK(t)
  BY <1>2, <1>5, <1>6 DEF PlanOK, RoleChanged
<1> QED
  BY <1>3, <1>4, <1>7 DEF ManagerInv

\* What a role sends of a command is a finite set of places.
LEMMA SentFacts ==
  ASSUME NEW s, NEW r \in Roles, NEW c
  PROVE  /\ SentAt(s, r, c) \subseteq 0..(RoleCells(r) - 1) /\ IsFiniteSet(SentAt(s, r, c))
         /\ Cardinality(SentAt(s, r, c)) \in Nat
<1>1. SentAt(s, r, c) \subseteq 0..(RoleCells(r) - 1)
  BY DEF SentAt
<1>2. RoleCells(r) \in Nat
  BY SlotFacts
<1>3. IsFiniteSet(0..(RoleCells(r) - 1))
  <2>1. 0 \in Int /\ RoleCells(r) - 1 \in Int
    BY <1>2
  <2> QED BY <2>1, FS_Interval
<1> QED
  BY <1>1, <1>3, FS_Subset, FS_CardinalityType

\* TLM_MGR_register_.
LEMMA AddedKeeps ==
  ASSUME NEW s, ManagerInv(s), NEW r \in Roles, NEW c \in Commands, CanAdd(s, r, c)
  PROVE  ManagerInv(Added(s, r, c))
<1> DEFINE n == s.num[r]
           slot == Slot(r, n)
           filled == Put(s.cells, slot, Cell(c, slot.cell))
           elem == Put(s.elem, slot, c)
           num == [s.num EXCEPT ![r] = @ + 1]
           row == [s.asked[r] EXCEPT ![c] = @ + 1]
           asked == [s.asked EXCEPT ![r] = row]
           disturbed == Disturbed(s, r)
           t == [s EXCEPT !.cells = filled, !.elem = elem, !.num = num, !.asked = asked, !.disturbed = disturbed]
<1>1. s \in ManagerStates /\ PlanOK(s) /\ s.inited /\ n \in Nat /\ n < Capacity(s, r)
  BY ManagerFields DEF ManagerInv, ManagerBase, CanAdd
<1>2. s.known /\ AllMatch(s) /\ \A a \in Roles \ s.partly : Packed(s, a) /\ AsAsked(s, a)
  BY <1>1 DEF PlanOK
<1>3. n \in 0..(RoleCells(r) - 1) /\ RoleCells(r) \in Nat
  <2>1. Capacity(s, r) = RoleCells(r)
    BY <1>2 DEF Capacity, Size, RoleCells
  <2> QED BY <1>1, <2>1, SlotFacts
<1>4. slot \in [block : BlockNumbers, cell : CellNumbers] /\ BlockRoles[slot.block] = r
  BY <1>3, SlotFacts
<1>5. /\ s.elem \in [BlockNumbers -> [CellNumbers -> Commands \cup {Unregistered}]]
      /\ s.cells \in [BlockNumbers -> [CellNumbers -> TelemetryCell]]
      /\ s.num \in [Roles -> Nat] /\ s.asked \in [Roles -> [Commands -> Nat]]
      /\ s.partly \in SUBSET Roles /\ s.disturbed \in SUBSET Roles
  BY <1>1, ManagerFields
<1>6. c \in Commands \cup {Unregistered} /\ Cell(c, slot.cell) \in TelemetryCell
      /\ Cell(c, slot.cell).cmd = c
  BY <1>4 DEF Cell, TelemetryCell
<1>7. Added(s, r, c) = t
  BY <1>1 DEF Added, Put, ManagerStates
<1> HIDE DEF slot, filled, elem, num, row, asked, disturbed, t, n
<1>8. IsPut(elem, s.elem, slot, c, Commands \cup {Unregistered})
  BY <1>4, <1>5, <1>6, PutFacts DEF elem
<1>9. IsPut(filled, s.cells, slot, Cell(c, slot.cell), TelemetryCell)
  BY <1>4, <1>5, <1>6, PutFacts DEF filled
<1>10. num \in [Roles -> Nat] /\ num[r] = n + 1 /\ \A a \in Roles \ {r} : num[a] = s.num[a]
  BY <1>5 DEF num, n
<1>11. row \in [Commands -> Nat] /\ row[c] = s.asked[r][c] + 1 /\ \A d \in Commands \ {c} : row[d] = s.asked[r][d]
  BY <1>5 DEF row
<1>12. asked \in [Roles -> [Commands -> Nat]] /\ asked[r] = row /\ \A a \in Roles \ {r} : asked[a] = s.asked[a]
  BY <1>5, <1>11 DEF asked
<1>13. disturbed \in SUBSET Roles
  BY <1>5 DEF disturbed, Disturbed
<1>14. /\ t \in ManagerStates /\ t.dcu = s.dcu /\ t.known = s.known /\ t.inited = s.inited
       /\ t.partly = s.partly /\ t.disturbed = disturbed /\ t.elem = elem /\ t.cells = filled /\ t.num = num
       /\ t.asked = asked
  BY <1>1, <1>8, <1>9, <1>10, <1>12, <1>13 DEF ManagerStates, t, IsPut
<1>15. RoleChanged(s, t, r)
  BY <1>4, <1>8, <1>9, <1>10, <1>12, <1>14 DEF RoleChanged, IsPut, disturbed
<1>16. t.num[r] <= RoleCells(r)
  BY <1>3, <1>10, <1>14
<1>17. c # Unregistered /\ c # NopCmd
  BY ManagerAssumption
<1>18. ASSUME NEW b \in BlockNumbers, NEW i \in CellNumbers PROVE CellMatches(t, b, i)
  <2>1. CASE b = slot.block /\ i = slot.cell
    BY <1>6, <1>8, <1>9, <1>14, <1>17, <2>1 DEF CellMatches, IsPut
  <2>2. CASE ~(b = slot.block /\ i = slot.cell)
    <3>1. CellMatches(s, b, i)
      BY <1>2 DEF AllMatch
    <3>2. elem[b][i] = s.elem[b][i] /\ filled[b][i] = s.cells[b][i]
      BY <1>8, <1>9, <2>2 DEF IsPut
    <3> QED BY <1>14, <3>1, <3>2 DEF CellMatches
  <2> QED BY <2>1, <2>2
<1>19. /\ ElemAt(t, Slot(r, n)) = c /\ CellAt(t, Slot(r, n)).cmd = c
       /\ \A k \in 0..(RoleCells(r) - 1) : k # n =>
             ElemAt(t, Slot(r, k)) = ElemAt(s, Slot(r, k)) /\ CellAt(t, Slot(r, k)) = CellAt(s, Slot(r, k))
  <2>1. ElemAt(t, Slot(r, n)) = c /\ CellAt(t, Slot(r, n)).cmd = c
    BY <1>6, <1>8, <1>9, <1>14 DEF ElemAt, CellAt, IsPut, slot
  <2>2. ASSUME NEW k \in 0..(RoleCells(r) - 1), k # n
        PROVE ElemAt(t, Slot(r, k)) = ElemAt(s, Slot(r, k)) /\ CellAt(t, Slot(r, k)) = CellAt(s, Slot(r, k))
    <3>1. ~(Slot(r, k).block = slot.block /\ Slot(r, k).cell = slot.cell)
      BY <1>3, <2>2, SlotsApart DEF slot
    <3>2. Slot(r, k).block \in BlockNumbers /\ Slot(r, k).cell \in CellNumbers
      BY SlotFacts
    <3> QED BY <1>8, <1>9, <1>14, <3>1, <3>2 DEF ElemAt, CellAt, IsPut
  <2> QED BY <2>1, <2>2
<1>20. ASSUME r \notin s.partly PROVE Packed(t, r) /\ AsAsked(t, r)
  <2>1. Packed(s, r) /\ AsAsked(s, r)
    BY <1>2, <1>20
  <2>2. Packed(t, r)
    <3> SUFFICES ASSUME NEW k \in 0..(RoleCells(r) - 1) PROVE ElemAt(t, Slot(r, k)) # Unregistered <=> k < n + 1
      BY <1>10, <1>14 DEF Packed
    <3>1. CASE k = n
      BY <1>3, <1>17, <1>19, <3>1
    <3>2. CASE k # n
      <4>1. k < n + 1 <=> k < n
        BY <1>3, <3>2
      <4> QED BY <1>19, <2>1, <3>2, <4>1 DEF Packed, n
    <3> QED BY <3>1, <3>2
  <2>3. CellAt(s, Slot(r, n)).cmd = NopCmd
    <3>1. ElemAt(s, Slot(r, n)) = Unregistered
      <4>1. ~(n < n)
        BY <1>3
      <4> QED BY <1>3, <2>1, <4>1 DEF Packed, n
    <3>2. CellMatches(s, slot.block, slot.cell)
      BY <1>2, <1>4 DEF AllMatch
    <3> QED BY <3>1, <3>2 DEF CellMatches, ElemAt, CellAt, slot
  <2>4. ASSUME NEW d \in Commands PROVE Cardinality(SentAt(t, r, d)) = row[d]
    <3>1. d # NopCmd
      BY ManagerAssumption
    <3>2. IsFiniteSet(SentAt(s, r, d)) /\ Cardinality(SentAt(s, r, d)) = s.asked[r][d] /\ n \notin SentAt(s, r, d)
      <4>1. IsFiniteSet(SentAt(s, r, d))
        BY SentFacts
      <4>2. Cardinality(SentAt(s, r, d)) = s.asked[r][d]
        BY <2>1 DEF AsAsked
      <4>3. n \notin SentAt(s, r, d)
        BY <2>3, <3>1 DEF SentAt
      <4> QED BY <4>1, <4>2, <4>3
    <3>3. CASE d = c
      <4>1. SentAt(t, r, c) = SentAt(s, r, c) \cup {n}
        BY <1>3, <1>19 DEF SentAt
      <4>2. Cardinality(SentAt(s, r, c) \cup {n}) = Cardinality(SentAt(s, r, c)) + 1
        BY <3>2, <3>3, FS_AddElement
      <4> QED BY <1>11, <3>2, <3>3, <4>1, <4>2
    <3>4. CASE d # c
      <4>1. SentAt(t, r, d) = SentAt(s, r, d)
        BY <1>19, <3>2, <3>4 DEF SentAt
      <4> QED BY <1>11, <3>2, <3>4, <4>1
    <3> QED BY <3>3, <3>4
  <2>5. AsAsked(t, r)
    BY <1>12, <1>14, <2>4 DEF AsAsked
  <2> QED BY <2>2, <2>5
<1>21. ManagerInv(t)
  BY <1>1, <1>15, <1>16, <1>18, <1>20, RoleChangedKeeps
<1> QED
  BY <1>7, <1>21

\* One of the places that hold c is given up, and no place of another value is.
OneLess(before, after, d, c) ==
    /\ Cardinality(before) \in Nat
    /\ d = c => Cardinality(before) > 0 /\ Cardinality(after) = Cardinality(before) - 1
    /\ d # c => Cardinality(after) = Cardinality(before)

Holding(g, m, d) == {k \in 0..(m - 1) : g[k] = d}

MovedLast(g, h, m, last, hole, nop) ==
    /\ h[last] = nop
    /\ hole # last => h[hole] = g[last]
    /\ \A k \in 0..(m - 1) : k # last /\ k # hole => h[k] = g[k]

\* The last command of a role moves into a hole: what its places hold then, if the contents were g.
LEMMA CountAfterMove ==
  ASSUME NEW m \in Nat, NEW last \in 0..(m - 1), NEW hole \in 0..(m - 1),
         NEW g, NEW h, NEW c, NEW nop, g[hole] = c, c # nop,
         MovedLast(g, h, m, last, hole, nop), NEW d, d # nop
  PROVE  OneLess(Holding(g, m, d), Holding(h, m, d), d, c)
<1> DEFINE before == {k \in 0..(m - 1) : g[k] = d}
           after == {k \in 0..(m - 1) : h[k] = d}
<1>5. /\ h[last] = nop
      /\ hole # last => h[hole] = g[last]
      /\ \A k \in 0..(m - 1) : k # last /\ k # hole => h[k] = g[k]
  BY DEF MovedLast
<1>1. IsFiniteSet(before) /\ Cardinality(before) \in Nat
  <2>1. 0 \in Int /\ m - 1 \in Int
    OBVIOUS
  <2>2. IsFiniteSet(0..(m - 1))
    BY <2>1, FS_Interval
  <2> QED BY <2>2, FS_Subset, FS_CardinalityType
<1>2. ASSUME d = c PROVE Cardinality(before) > 0 /\ Cardinality(after) = Cardinality(before) - 1
  <2>1. hole \in before
    BY <1>2
  <2>2. Cardinality(before) > 0
    <3>1. Cardinality(before) # 0
      BY <1>1, <2>1, FS_EmptySet
    <3> QED BY <1>1, <3>1
  <2>3. \E x \in before : after = before \ {x}
    <3>1. CASE g[last] = c
      <4>1. last \in before /\ after = before \ {last}
        BY <1>2, <1>5, <3>1
      <4> QED BY <4>1
    <3>2. CASE g[last] # c
      <4>1. after = before \ {hole}
        BY <1>2, <1>5, <3>2
      <4> QED BY <2>1, <4>1
    <3> QED BY <3>1, <3>2
  <2>4. Cardinality(after) = Cardinality(before) - 1
    <3>1. PICK x \in before : after = before \ {x}
      BY <2>3
    <3> HIDE DEF before, after
    <3> QED BY <1>1, <3>1, FS_RemoveElement
  <2> QED BY <2>2, <2>4
<1>3. ASSUME d # c PROVE Cardinality(after) = Cardinality(before)
  <2>1. CASE g[last] = d
    <3>1. hole # last
      BY <1>3, <2>1
    <3> DEFINE rest == before \ {last}
    <3>2. last \in before /\ hole \notin rest /\ after = rest \cup {hole}
      BY <1>5, <1>3, <2>1, <3>1
    <3>3. IsFiniteSet(rest) /\ Cardinality(rest) = Cardinality(before) - 1
      BY <1>1, <3>2, FS_RemoveElement
    <3>4. Cardinality(after) = Cardinality(rest) + 1
      BY <3>2, <3>3, FS_AddElement
    <3> HIDE DEF rest
    <3>5. Cardinality(after) = Cardinality(before)
      BY <1>1, <3>3, <3>4
    <3> QED BY <3>5
  <2>2. CASE g[last] # d
    <3>1. after = before
      BY <1>5, <1>3, <2>2
    <3> QED BY <3>1
  <2> QED BY <2>1, <2>2
<1>4. OneLess(before, after, d, c)
  BY <1>1, <1>2, <1>3 DEF OneLess
<1> QED
  BY <1>4 DEF Holding

\* The first of a set of numbers.
LEMMA FirstOfFound ==
  ASSUME NEW S \in SUBSET Nat, S # {}, NEW x, x = (CHOOSE k \in S : \A i \in S : k <= i)
  PROVE  x \in S
<1>1. \E k \in S : \A i \in S : k <= i
  BY MinOfNats
<1> QED
  BY <1>1

\* Two cells of a table are written, the second one last.
TwicePut(new, table, hole, x, last, y, X) ==
    /\ new \in [BlockNumbers -> [CellNumbers -> X]]
    /\ \A b \in BlockNumbers, i \in CellNumbers :
          new[b][i] = IF b = last.block /\ i = last.cell THEN y
                      ELSE IF b = hole.block /\ i = hole.cell THEN x ELSE table[b][i]
    /\ \A b \in BlockNumbers : b # hole.block /\ b # last.block => new[b] = table[b]

LEMMA TwicePutFacts ==
  ASSUME NEW X, NEW table \in [BlockNumbers -> [CellNumbers -> X]],
         NEW hole \in [block : BlockNumbers, cell : CellNumbers], NEW x \in X,
         NEW last \in [block : BlockNumbers, cell : CellNumbers], NEW y \in X
  PROVE  TwicePut(Put(Put(table, hole, x), last, y), table, hole, x, last, y, X)
<1> DEFINE one == Put(table, hole, x)
           two == Put(one, last, y)
<1>1. IsPut(one, table, hole, x, X)
  BY PutFacts
<1>2. one \in [BlockNumbers -> [CellNumbers -> X]]
  BY <1>1 DEF IsPut
<1> HIDE DEF one
<1>3. IsPut(two, one, last, y, X)
  BY <1>2, PutFacts
<1> HIDE DEF two
<1>4. hole.block \in BlockNumbers /\ hole.cell \in CellNumbers /\ last.block \in BlockNumbers /\ last.cell \in CellNumbers
  OBVIOUS
<1>5. ASSUME NEW b \in BlockNumbers, NEW i \in CellNumbers
      PROVE two[b][i] = IF b = last.block /\ i = last.cell THEN y
                        ELSE IF b = hole.block /\ i = hole.cell THEN x ELSE table[b][i]
  <2>1. CASE b = last.block /\ i = last.cell
    BY <1>3, <2>1 DEF IsPut
  <2>2. CASE ~(b = last.block /\ i = last.cell)
    <3>1. two[b][i] = one[b][i]
      BY <1>3, <2>2 DEF IsPut
    <3>2. one[b][i] = IF b = hole.block /\ i = hole.cell THEN x ELSE table[b][i]
      BY <1>1 DEF IsPut
    <3> QED BY <2>2, <3>1, <3>2
  <2> QED BY <2>1, <2>2
<1>6. ASSUME NEW b \in BlockNumbers, b # hole.block, b # last.block PROVE two[b] = table[b]
  BY <1>1, <1>3, <1>6 DEF IsPut
<1>7. TwicePut(two, table, hole, x, last, y, X)
  BY <1>3, <1>5, <1>6 DEF IsPut, TwicePut
<1> QED
  BY <1>7 DEF two, one

\* TLM_MGR_delete_.
LEMMA RemovedKeeps ==
  ASSUME NEW s, ManagerInv(s), NEW r \in Roles, NEW c \in Commands, CanRemove(s, r, c)
  PROVE  ManagerInv(Removed(s, r, c))
<1> DEFINE n == s.num[r]
           m == RoleCells(r)
           p == n - 1
           f == CHOOSE k \in Found(s, r, c) : \A i \in Found(s, r, c) : k <= i
           hole == Slot(r, f)
           last == Slot(r, p)
           x == ElemAt(s, last)
           y == CellAt(s, last)
           z == Cell(NopCmd, last.cell)
           filled == Put(Put(s.cells, hole, y), last, z)
           elem == Put(Put(s.elem, hole, x), last, Unregistered)
           num == [s.num EXCEPT ![r] = @ - 1]
           row == [s.asked[r] EXCEPT ![c] = IF @ > 0 THEN @ - 1 ELSE 0]
           asked == [s.asked EXCEPT ![r] = row]
           disturbed == Disturbed(s, r)
           t == [s EXCEPT !.cells = filled, !.elem = elem, !.num = num, !.asked = asked, !.disturbed = disturbed]
<1>1. s \in ManagerStates /\ PlanOK(s) /\ s.inited /\ n \in Nat /\ n <= m /\ m \in Nat
  BY ManagerFields, SlotFacts DEF ManagerInv, ManagerBase, CanRemove
<1>2. s.known /\ AllMatch(s) /\ \A a \in Roles \ s.partly : Packed(s, a) /\ AsAsked(s, a)
  BY <1>1 DEF PlanOK
<1>3. f \in 0..p /\ ElemAt(s, Slot(r, f)) = c
  <2>1. Found(s, r, c) # {}
    BY DEF CanRemove
  <2>2. Found(s, r, c) \in SUBSET Nat
    <3>1. 0..p \in SUBSET Nat
      BY <1>1
    <3> QED BY <3>1 DEF Found
  <2>3. f \in Found(s, r, c)
    BY <2>1, <2>2, FirstOfFound
  <2> HIDE DEF f
  <2> QED BY <2>3 DEF Found
<1> HIDE DEF f
<1>4. p \in 0..(m - 1) /\ f \in 0..(m - 1) /\ n = p + 1 /\ p \in Nat /\ f \in Nat
  BY <1>1, <1>3
<1>5. /\ hole \in [block : BlockNumbers, cell : CellNumbers] /\ BlockRoles[hole.block] = r
      /\ last \in [block : BlockNumbers, cell : CellNumbers] /\ BlockRoles[last.block] = r
  BY <1>4, SlotFacts
<1>6. /\ s.elem \in [BlockNumbers -> [CellNumbers -> Commands \cup {Unregistered}]]
      /\ s.cells \in [BlockNumbers -> [CellNumbers -> TelemetryCell]]
      /\ s.num \in [Roles -> Nat] /\ s.asked \in [Roles -> [Commands -> Nat]]
      /\ s.partly \in SUBSET Roles /\ s.disturbed \in SUBSET Roles
  BY <1>1, ManagerFields
<1>7. /\ x \in Commands \cup {Unregistered} /\ y \in TelemetryCell /\ z \in TelemetryCell
      /\ z.cmd = NopCmd /\ z.ti = last.cell
  BY <1>5, <1>6 DEF ElemAt, CellAt, Cell, TelemetryCell
<1>8. Removed(s, r, c) = t
  <2> DEFINE w == Moved(s, hole, last)
             elem1 == Put(s.elem, hole, x)
             cells1 == Put(s.cells, hole, y)
  <2>1. w = [s EXCEPT !.elem = elem1, !.cells = cells1]
    BY <1>1 DEF Moved, Put, ManagerStates
  <2> HIDE DEF elem1, cells1
  <2>2. /\ w.elem = elem1 /\ w.cells = cells1 /\ w.num = s.num /\ w.asked = s.asked
        /\ w \in [dcu : {s.dcu}, inited : {s.inited}, known : {s.known}, num : {s.num}, elem : {elem1},
                 cells : {cells1}, asked : {s.asked}, partly : {s.partly}, disturbed : {s.disturbed}, cut : {s.cut}]
    BY <1>1, <2>1 DEF ManagerStates
  <2>3. Removed(s, r, c) = [w EXCEPT !.cells = Put(w.cells, last, z), !.elem = Put(w.elem, last, Unregistered),
                                     !.num = [w.num EXCEPT ![r] = @ - 1],
                                     !.asked = [w.asked EXCEPT ![r] = [w.asked[r] EXCEPT ![c] = IF @ > 0 THEN @ - 1 ELSE 0]],
                                     !.disturbed = disturbed]
    <3> HIDE DEF w
    <3>1. Removed(s, r, c) = [w EXCEPT
            !.cells[last.block][last.cell] = z,
            !.elem[last.block][last.cell] = Unregistered,
            !.num[r] = @ - 1,
            !.asked[r][c] = IF @ > 0 THEN @ - 1 ELSE 0,
            !.disturbed = disturbed]
      BY DEF Removed, f, w
    <3> HIDE DEF z, last, disturbed
    <3> QED BY <2>2, <3>1 DEF Put
  <2> HIDE DEF w, x, y, z, last, hole, disturbed
  <2>4. [w EXCEPT !.cells = filled, !.elem = elem, !.num = num, !.asked = asked, !.disturbed = disturbed] = t
    <3> HIDE DEF filled, elem, num, asked, disturbed
    <3> QED BY <1>1, <2>1, <2>2 DEF ManagerStates
  <2> QED BY <2>2, <2>3, <2>4 DEF elem1, cells1
<1>9. x = s.elem[last.block][last.cell] /\ y = s.cells[last.block][last.cell]
  BY DEF ElemAt, CellAt
<1> HIDE DEF hole, last, filled, elem, num, row, asked, disturbed, t, n, m, p, x, y, z
<1>10. TwicePut(elem, s.elem, hole, x, last, Unregistered, Commands \cup {Unregistered})
  BY <1>5, <1>6, <1>7, TwicePutFacts DEF elem
<1>11. TwicePut(filled, s.cells, hole, y, last, z, TelemetryCell)
  BY <1>5, <1>6, <1>7, TwicePutFacts DEF filled
<1>12. num \in [Roles -> Nat] /\ num[r] = p /\ \A a \in Roles \ {r} : num[a] = s.num[a]
  BY <1>4, <1>6 DEF num, n, p
<1>13. /\ row \in [Commands -> Nat] /\ s.asked[r][c] \in Nat
       /\ s.asked[r][c] > 0 => row[c] = s.asked[r][c] - 1
       /\ \A d \in Commands \ {c} : row[d] = s.asked[r][d]
  BY <1>6 DEF row
<1>14. asked \in [Roles -> [Commands -> Nat]] /\ asked[r] = row /\ \A a \in Roles \ {r} : asked[a] = s.asked[a]
  BY <1>6, <1>13 DEF asked
<1>15. disturbed \in SUBSET Roles
  BY <1>6 DEF disturbed, Disturbed
<1>16. /\ t \in ManagerStates /\ t.dcu = s.dcu /\ t.known = s.known /\ t.inited = s.inited
       /\ t.partly = s.partly /\ t.disturbed = disturbed /\ t.elem = elem /\ t.cells = filled /\ t.num = num
       /\ t.asked = asked
  BY <1>1, <1>10, <1>11, <1>12, <1>14, <1>15 DEF ManagerStates, t, TwicePut
<1>17. RoleChanged(s, t, r)
  BY <1>5, <1>10, <1>11, <1>12, <1>14, <1>16 DEF RoleChanged, TwicePut, disturbed
<1>18. t.num[r] <= m
  BY <1>1, <1>4, <1>12, <1>16
<1>19. c # Unregistered /\ c # NopCmd
  BY ManagerAssumption
<1>20. r \notin s.partly => x # Unregistered
  <2> SUFFICES ASSUME r \notin s.partly PROVE x # Unregistered
    OBVIOUS
  <2>1. p < n
    BY <1>4
  <2> QED BY <1>2, <1>4, <2>1 DEF Packed, x, last, m, n
<1>21. ASSUME NEW b \in BlockNumbers, NEW i \in CellNumbers PROVE CellMatches(t, b, i)
  <2>1. CASE b = last.block /\ i = last.cell
    <3>1. elem[b][i] = Unregistered /\ filled[b][i] = z
      BY <1>10, <1>11, <2>1 DEF TwicePut
    <3> QED BY <1>7, <1>16, <2>1, <3>1 DEF CellMatches
  <2>2. CASE b = hole.block /\ i = hole.cell /\ ~(b = last.block /\ i = last.cell)
    <3>1. elem[b][i] = x /\ filled[b][i] = y
      BY <1>10, <1>11, <2>2 DEF TwicePut
    <3>2. CellMatches(s, last.block, last.cell)
      BY <1>2, <1>5 DEF AllMatch
    <3> QED BY <1>5, <1>9, <1>16, <1>20, <2>2, <3>1, <3>2 DEF CellMatches
  <2>3. CASE ~(b = hole.block /\ i = hole.cell) /\ ~(b = last.block /\ i = last.cell)
    <3>1. CellMatches(s, b, i)
      BY <1>2 DEF AllMatch
    <3>2. elem[b][i] = s.elem[b][i] /\ filled[b][i] = s.cells[b][i]
      BY <1>10, <1>11, <2>3 DEF TwicePut
    <3> QED BY <1>16, <3>1, <3>2 DEF CellMatches
  <2> QED BY <2>1, <2>2, <2>3
<1>22. /\ ElemAt(t, Slot(r, p)) = Unregistered /\ CellAt(t, Slot(r, p)) = z
       /\ f # p => ElemAt(t, Slot(r, f)) = x /\ CellAt(t, Slot(r, f)) = y
       /\ \A k \in 0..(m - 1) : k # p /\ k # f =>
             ElemAt(t, Slot(r, k)) = ElemAt(s, Slot(r, k)) /\ CellAt(t, Slot(r, k)) = CellAt(s, Slot(r, k))
  <2>1. ASSUME NEW k \in 0..(m - 1)
        PROVE  /\ ElemAt(t, Slot(r, k)) = IF k = p THEN Unregistered ELSE IF k = f THEN x ELSE ElemAt(s, Slot(r, k))
               /\ CellAt(t, Slot(r, k)) = IF k = p THEN z ELSE IF k = f THEN y ELSE CellAt(s, Slot(r, k))
    <3>1. Slot(r, k).block \in BlockNumbers /\ Slot(r, k).cell \in CellNumbers
      BY SlotFacts DEF m
    <3>2. k = p <=> (Slot(r, k).block = last.block /\ Slot(r, k).cell = last.cell)
      BY <1>4, SlotsApart DEF last, m
    <3>3. k = f <=> (Slot(r, k).block = hole.block /\ Slot(r, k).cell = hole.cell)
      BY <1>4, SlotsApart DEF hole, m
    <3>4. ElemAt(t, Slot(r, k)) = elem[Slot(r, k).block][Slot(r, k).cell]
          /\ CellAt(t, Slot(r, k)) = filled[Slot(r, k).block][Slot(r, k).cell]
      BY <1>16 DEF ElemAt, CellAt
    <3>5. ElemAt(s, Slot(r, k)) = s.elem[Slot(r, k).block][Slot(r, k).cell]
          /\ CellAt(s, Slot(r, k)) = s.cells[Slot(r, k).block][Slot(r, k).cell]
      BY DEF ElemAt, CellAt
    <3> QED BY <1>10, <1>11, <3>1, <3>2, <3>3, <3>4, <3>5 DEF TwicePut
  <2> QED BY <1>4, <2>1
<1>23. ASSUME r \notin s.partly PROVE Packed(t, r) /\ AsAsked(t, r)
  <2>1. Packed(s, r) /\ AsAsked(s, r)
    BY <1>2, <1>23
  <2>2. Packed(t, r)
    <3> SUFFICES ASSUME NEW k \in 0..(m - 1) PROVE ElemAt(t, Slot(r, k)) # Unregistered <=> k < p
      BY <1>12, <1>16 DEF Packed, m
    <3>1. CASE k = p
      BY <1>4, <1>22, <3>1
    <3>2. CASE k = f /\ k # p
      <4>1. k < p
        BY <1>3, <1>4, <3>2
      <4> QED BY <1>20, <1>22, <1>23, <3>2, <4>1
    <3>3. CASE k # f /\ k # p
      <4>1. k < p <=> k < n
        BY <1>1, <1>4, <3>3
      <4> QED BY <1>22, <2>1, <3>3, <4>1 DEF Packed, n, m
    <3> QED BY <3>1, <3>2, <3>3
  <2>3. CellAt(s, Slot(r, f)).cmd = c
    <3>1. CellMatches(s, hole.block, hole.cell)
      BY <1>2, <1>5 DEF AllMatch
    <3> QED BY <1>3, <1>19, <3>1 DEF CellMatches, ElemAt, CellAt, hole
  <2> DEFINE g == [k \in 0..(m - 1) |-> CellAt(s, Slot(r, k)).cmd]
             h == [k \in 0..(m - 1) |-> CellAt(t, Slot(r, k)).cmd]
  <2>4. g[f] = c /\ h[p] = NopCmd
    BY <1>4, <1>7, <1>22, <2>3
  <2>5. f # p => h[f] = g[p]
    BY <1>4, <1>22 DEF y, last
  <2>6. \A k \in 0..(m - 1) : k # p /\ k # f => h[k] = g[k]
    BY <1>22
  <2>7. \A d : SentAt(s, r, d) = {k \in 0..(m - 1) : g[k] = d} /\ SentAt(t, r, d) = {k \in 0..(m - 1) : h[k] = d}
    BY DEF SentAt, m
  <2> HIDE DEF g, h
  <2>8. ASSUME NEW d \in Commands PROVE Cardinality(SentAt(t, r, d)) = row[d]
    <3> DEFINE before == Cardinality(SentAt(s, r, d))
               after == Cardinality(SentAt(t, r, d))
    <3>1. d # NopCmd
      BY ManagerAssumption
    <3>2. /\ before \in Nat
          /\ d = c => before > 0 /\ after = before - 1
          /\ d # c => after = before
      <4> DEFINE B == {k \in 0..(m - 1) : g[k] = d}
                 A == {k \in 0..(m - 1) : h[k] = d}
      <4>1. /\ Cardinality(B) \in Nat
            /\ d = c => Cardinality(B) > 0 /\ Cardinality(A) = Cardinality(B) - 1
            /\ d # c => Cardinality(A) = Cardinality(B)
        <5>1. MovedLast(g, h, m, p, f, NopCmd)
          BY <2>4, <2>5, <2>6 DEF MovedLast
        <5>2. OneLess(Holding(g, m, d), Holding(h, m, d), d, c)
          BY <1>1, <1>4, <1>19, <2>4, <3>1, <5>1, CountAfterMove
        <5> QED BY <5>2 DEF OneLess, Holding
      <4> QED BY <2>7, <4>1
    <3>3. before = s.asked[r][d]
      BY <2>1 DEF AsAsked
    <3> HIDE DEF before, after
    <3>4. after = row[d]
      BY <1>13, <3>2, <3>3
    <3> QED BY <3>4 DEF after
  <2>9. AsAsked(t, r)
    BY <1>14, <1>16, <2>8 DEF AsAsked
  <2> QED BY <2>2, <2>9
<1>24. ManagerInv(t)
  BY <1>1, <1>17, <1>18, <1>21, <1>23, RoleChangedKeeps DEF m
<1> QED
  BY <1>8, <1>24

\* The divided commands after an execution: no command leaves the list of real time commands.
LEMMA ExecutedDcu ==
  ASSUME NEW s, ManagerInv(s), NEW code \in Codes
  PROVE  s.dcu.rtc # <<>> => Executed(s, code).dcu.rtc # <<>>
<1> DEFINE d == CheckedIn(s.dcu, code)
           in == [s EXCEPT !.dcu = CheckedIn(@, code)]
           u == Executed(s, code)
           n == in.dcu.log[1].counter
<1>1. s \in ManagerStates /\ IsDcu(s.dcu)
  BY DEF ManagerInv, ManagerBase
<1>2. IsDcu(d) /\ d.rtc = s.dcu.rtc /\ d.log[1].code = code
  BY <1>1, CheckedInFacts DEF Turned
<1>3. in \in ManagerStates /\ in.dcu = d
  <2> HIDE DEF d
  <2>1. in = [s EXCEPT !.dcu = d]
    BY DEF d
  <2> HIDE DEF in
  <2> QED BY <1>1, <1>2, <2>1 DEF ManagerStates, IsDcu
<1> HIDE DEF d, in
<1>5. u.dcu = d \/ u.dcu = Finished(d, code) \/ u.dcu = NextRegistered(d, code)
  <2>1. CASE code # "INIT"
    <3>1. code \in Roles
      BY <2>1 DEF Codes
    <3>2. u = CASE ~MayExecute(in.dcu) -> in
                [] MayExecute(in.dcu) /\ AllCleared(s, code, n) -> RoleCleared(in, code)
                [] MayExecute(in.dcu) /\ ~AllCleared(s, code, n) -> RoleBlockCleared(in, code, n)
      BY <2>1 DEF Executed, ClearExecuted, in
    <3>3. RoleCleared(in, code).dcu = Finished(d, code)
      BY <1>3 DEF RoleCleared, ManagerStates
    <3>4. RoleBlockCleared(in, code, n).dcu = NextRegistered(d, code)
      <4> DEFINE b == BlocksOf(code)[n + 1]
                 t == [BlockToNop(in, b) EXCEPT
                         !.elem[b] = EmptyTable[b],
                         !.partly = @ \cup {code},
                         !.disturbed = IF n = 0 THEN @ \ {code} ELSE @]
                 e == NextRegistered(d, code)
                 c == IF Len(e.rtc) > Len(d.rtc) THEN in.cut \ {code} ELSE in.cut
      <4>1. RoleBlockCleared(in, code, n) = Next_(t, code)
        BY DEF RoleBlockCleared
      <4>2. t.dcu = d /\ t.cut = in.cut /\ \A x, y : [t EXCEPT !.dcu = x, !.cut = y].dcu = x
        BY <1>3 DEF BlockToNop, ManagerStates
      <4> HIDE DEF t
      <4>3. Next_(t, code) = [t EXCEPT !.dcu = e, !.cut = c]
        BY <4>2 DEF Next_
      <4> HIDE DEF e, c
      <4>4. Next_(t, code).dcu = e
        BY <4>2, <4>3
      <4> QED BY <4>1, <4>4 DEF e
    <3> QED BY <1>3, <3>2, <3>3, <3>4
  <2>2. CASE code = "INIT"
    <3> DEFINE t == InitPart(in, n)
    <3>1. u = CASE ~MayExecute(in.dcu) -> in
                [] MayExecute(in.dcu) /\ InitLast(n) -> InitDone(t)
                [] MayExecute(in.dcu) /\ ~InitLast(n) -> Next_(t, code)
      BY <2>2 DEF Executed, InitExecuted, in
    <3>2. /\ t.dcu = d /\ \A x, y : [t EXCEPT !.dcu = x, !.cut = y].dcu = x
          /\ \A x, y, z, w, v : [t EXCEPT !.dcu = x, !.inited = y, !.asked = z, !.partly = w, !.disturbed = v].dcu = x
      BY <1>3 DEF InitPart, InfoCleared, BlockToNop, ManagerStates
    <3> HIDE DEF t
    <3>3. InitDone(t).dcu = Finished(d, code)
      BY <2>2, <3>2 DEF InitDone
    <3>4. Next_(t, code).dcu = NextRegistered(d, code)
      <4> DEFINE e == NextRegistered(d, code)
                 c == IF Len(e.rtc) > Len(d.rtc) THEN t.cut \ {code} ELSE t.cut
      <4>1. Next_(t, code) = [t EXCEPT !.dcu = e, !.cut = c]
        BY <3>2 DEF Next_
      <4> HIDE DEF e, c
      <4>2. Next_(t, code).dcu = e
        BY <3>2, <4>1
      <4> QED BY <4>2 DEF e
    <3> QED BY <1>3, <3>1, <3>3, <3>4
  <2> QED BY <2>1, <2>2
<1>6. Finished(d, code).rtc = d.rtc
  <2>1. "FINISHED" \in Statuses
    BY DEF Statuses
  <2> QED BY <1>2, <2>1, WithStatusFacts DEF Finished
<1>7. NextRegistered(d, code).rtc = d.rtc \/ NextRegistered(d, code).rtc = Append(d.rtc, code)
  BY <1>2, NextRegisteredFacts
<1>8. d.rtc \in Seq(Codes) /\ Append(d.rtc, code) # <<>>
  <2>1. d.rtc \in Seq(Codes)
    BY <1>2 DEF IsDcu
  <2>2. Len(Append(d.rtc, code)) = Len(d.rtc) + 1 /\ Len(d.rtc) \in Nat
    BY <2>1, AppendProperties, LenProperties
  <2> QED BY <2>1, <2>2
<1>9. s.dcu.rtc # <<>> => u.dcu.rtc # <<>>
  BY <1>2, <1>5, <1>6, <1>7, <1>8
<1> QED
  BY <1>9 DEF u

-----------------------------------------------------------------------------
(***************************************************************************)
(* The telemetry manager: the other commands, and the theorems.            *)
(***************************************************************************)
\* A log that was cleared.
LEMMA ClearedLogFacts ==
  /\ IsLog(ClearedLog) /\ LogMax \in Nat
  /\ \A i \in 1..LogMax : ClearedLog[i].code = NoCode /\ NoCode \notin Roles /\ NoCode # "INIT"
<1>1. LogMax \in Nat
  BY DividedAssumption
<1>2. NewEntry(NoCode) \in LogEntry /\ NewEntry(NoCode).code = NoCode
  BY NewEntryFacts
<1>3. NoCode \notin Roles /\ NoCode # "INIT"
  BY ManagerAssumption
<1>4. /\ ClearedLog \in Seq(LogEntry) /\ Len(ClearedLog) = LogMax
      /\ \A i \in 1..LogMax : ClearedLog[i].code = NoCode
  BY <1>1, <1>2 DEF ClearedLog
<1> QED
  BY <1>1, <1>3, <1>4 DEF IsLog

\* The entries of a cleared log say nothing.
LEMMA ClearedEntries ==
  ASSUME NEW s, s.dcu.log = ClearedLog
  PROVE  EntriesOK(s)
BY ClearedLogFacts DEF EntriesOK, EntryOK

\* The state at the start of the program.
LEMMA BootInv == ManagerInv(Boot)
<1> DEFINE num == [r \in Roles |-> 0]
           filled == [b \in BlockNumbers |-> [i \in CellNumbers |-> Cell(Leftover, i)]]
           asked == [r \in Roles |-> NothingAsked]
           dcu == [log |-> ClearedLog, rtc |-> <<>>]
<1>1. IsDcu(dcu)
  <2>1. <<>> \in Seq(Codes) /\ Len(<<>>) = 0
    OBVIOUS
  <2>2. ClearedLog \in Seq(LogEntry)
    BY ClearedLogFacts DEF IsLog
  <2> QED BY <2>1, <2>2, ClearedLogFacts, DividedAssumption DEF IsDcu
<1>2. num \in [Roles -> Nat] /\ \A r \in Roles : num[r] = 0
  OBVIOUS
<1>3. filled \in [BlockNumbers -> [CellNumbers -> TelemetryCell]]
  BY DEF Cell, TelemetryCell
<1>4. asked \in [Roles -> [Commands -> Nat]]
  BY DEF NothingAsked
<1>5. Boot = [dcu |-> dcu, inited |-> FALSE, known |-> FALSE, num |-> num, elem |-> EmptyTable, cells |-> filled,
              asked |-> asked, partly |-> {}, disturbed |-> {}, cut |-> {}]
  BY DEF Boot
<1>6. dcu.log = ClearedLog
  OBVIOUS
<1> HIDE DEF dcu, num, filled, asked
<1>7. Boot \in ManagerStates /\ Boot.dcu = dcu /\ ~Boot.inited /\ Boot.num = num /\ Boot.disturbed = {}
  BY <1>1, <1>2, <1>3, <1>4, <1>5, EmptyTableFacts DEF ManagerStates, IsDcu
<1>8. \A r \in Roles : Boot.num[r] <= RoleCells(r)
  BY <1>2, <1>7, SlotFacts
<1>9. ManagerBase(Boot)
  BY <1>1, <1>7, <1>8 DEF ManagerBase
<1>10. EntriesOK(Boot)
  BY <1>6, <1>7, ClearedEntries
<1> QED
  BY <1>7, <1>9, <1>10 DEF ManagerInv, PlanOK

\* Cmd_DCU_ABORT_CMD.
LEMMA AbortKeeps ==
  ASSUME NEW s, ManagerInv(s), NEW code \in Codes
  PROVE  ManagerInv([s EXCEPT !.dcu = Aborted(@, code)])
<1> DEFINE d == Aborted(s.dcu, code)
           t == [s EXCEPT !.dcu = d]
<1>1. IsDcu(s.dcu) /\ EntriesOK(s)
  BY DEF ManagerInv, ManagerBase
<1>2. "ABORTED_BY_CMD" \in Statuses /\ d = WithStatus(s.dcu, code, "ABORTED_BY_CMD")
  BY DEF Statuses, Aborted
<1>3. /\ IsDcu(d) /\ Turned(d.log, s.dcu.log, code) /\ d.log[1].status = "ABORTED_BY_CMD"
      /\ \/ d.log[1].counter = 0
         \/ \E j \in 1..LogMax : s.dcu.log[j].code = code /\ d.log[1].counter = s.dcu.log[j].counter
  BY <1>1, <1>2, WithStatusFacts
<1> HIDE DEF d
<1>4. d.log[1].code = code
  BY <1>3 DEF Turned
<1>5. d.log[1].counter <= Bound(code)
  <2>1. CASE d.log[1].counter = 0
    BY <2>1, BoundFacts
  <2>2. CASE d.log[1].counter # 0
    <3>1. PICK j \in 1..LogMax : s.dcu.log[j].code = code /\ d.log[1].counter = s.dcu.log[j].counter
      BY <1>3, <2>2
    <3>2. EntryOK(s, s.dcu.log[j])
      BY <1>1 DEF EntriesOK
    <3> QED BY <3>1, <3>2, EntryBound
  <2> QED BY <2>1, <2>2
<1>6. EntryOK(s, d.log[1])
  BY <1>3, <1>4, <1>5, EntryBound
<1>7. ManagerInv(t)
  BY <1>3, <1>6, DcuStep
<1> QED
  BY <1>7 DEF d

\* Cmd_DCU_DOWN_ABORT_FLAG.
LEMMA DownAbortFlagKeeps ==
  ASSUME NEW s, ManagerInv(s), NEW code \in Codes
  PROVE  ManagerInv([s EXCEPT !.dcu = AbortFlagDown(@, code)])
<1> DEFINE d == AbortFlagDown(s.dcu, code)
           t == [s EXCEPT !.dcu = d]
<1>1. IsDcu(s.dcu)
  BY DEF ManagerInv, ManagerBase
<1>2. /\ IsDcu(d) /\ Turned(d.log, s.dcu.log, code)
      /\ d.log[1].status = "FINISHED" /\ d.log[1].counter = 0
  BY <1>1, AbortFlagDownFacts
<1> HIDE DEF d
<1>3. d.log[1].code = code
  BY <1>2 DEF Turned
<1>4. EntryOK(s, d.log[1])
  BY <1>2, <1>3, BoundFacts, EntryBound
<1>5. ManagerInv(t)
  BY <1>2, <1>4, DcuStep
<1> QED
  BY <1>5 DEF d

\* A command that leaves the entries of the log, the table and the blocks as they are.
LEMMA SameEntries ==
  ASSUME NEW s, ManagerInv(s), NEW t \in ManagerStates, SamePlan(s, t), t.asked = s.asked,
         t.dcu.log = s.dcu.log, Len(t.dcu.rtc) <= RtcMax
  PROVE  ManagerInv(t)
<1>1. \A e : EntryOK(t, e) <=> EntryOK(s, e)
  BY SamePlanKeeps
<1>2. PlanOK(t)
  BY SamePlanKeeps DEF ManagerInv
<1>3. EntriesOK(t)
  BY <1>1 DEF EntriesOK, ManagerInv
<1>4. IsDcu(t.dcu)
  BY ManagerFields DEF IsDcu, ManagerInv, ManagerBase
<1> QED
  BY <1>2, <1>3, <1>4 DEF ManagerInv, ManagerBase, SamePlan

\* Cmd_RTCD_CLEAR_ALL_REALTIME.
LEMMA ClearRealtimeKeeps ==
  ASSUME NEW s, ManagerInv(s)
  PROVE  ManagerInv([s EXCEPT !.dcu.rtc = <<>>, !.cut = @ \cup ToSet(s.dcu.rtc)])
<1> DEFINE c == s.cut \cup ToSet(s.dcu.rtc)
           d == [s.dcu EXCEPT !.rtc = <<>>]
           t == [s EXCEPT !.dcu.rtc = <<>>, !.cut = @ \cup ToSet(s.dcu.rtc)]
<1>1. s \in ManagerStates /\ s.dcu \in [log : Seq(LogEntry), rtc : Seq(Codes)] /\ s.cut \in SUBSET Codes
  BY ManagerFields DEF ManagerInv, ManagerBase
<1>2. c \in SUBSET Codes
  <2>1. ToSet(s.dcu.rtc) \subseteq Codes
    BY <1>1, ElementOfSeq DEF ToSet
  <2> QED BY <1>1, <2>1
<1>3. t = [s EXCEPT !.dcu = d, !.cut = c]
  OBVIOUS
<1>4. d \in [log : Seq(LogEntry), rtc : Seq(Codes)] /\ d.log = s.dcu.log /\ d.rtc = <<>>
  <2>1. <<>> \in Seq(Codes)
    OBVIOUS
  <2> DEFINE none == <<>>
  <2>2. none \in Seq(Codes) /\ d = [s.dcu EXCEPT !.rtc = none]
    BY <2>1
  <2> HIDE DEF none, d
  <2>3. d \in [log : Seq(LogEntry), rtc : Seq(Codes)] /\ d.log = s.dcu.log /\ d.rtc = none
    BY <1>1, <2>2
  <2> QED BY <2>3 DEF none
<1> HIDE DEF t, c, d
<1>5. t \in ManagerStates /\ t.dcu = d /\ SamePlan(s, t) /\ t.asked = s.asked
  BY <1>1, <1>2, <1>3, <1>4 DEF ManagerStates, SamePlan
<1>6. Len(d.rtc) <= RtcMax
  BY <1>4, DividedAssumption
<1>7. ManagerInv(t)
  BY <1>4, <1>5, <1>6, SameEntries
<1> QED
  BY <1>7 DEF t

\* The dispatcher drops the command it has executed.
LEMMA DropKeeps ==
  ASSUME NEW s, ManagerInv(s), s.dcu.rtc # <<>>
  PROVE  ManagerInv([s EXCEPT !.dcu.rtc = Tail(@)])
<1> DEFINE rest == Tail(s.dcu.rtc)
           d == [s.dcu EXCEPT !.rtc = rest]
           t == [s EXCEPT !.dcu.rtc = Tail(@)]
<1>1. /\ s \in ManagerStates /\ s.dcu \in [log : Seq(LogEntry), rtc : Seq(Codes)]
      /\ Len(s.dcu.rtc) <= RtcMax
  BY ManagerFields DEF ManagerInv, ManagerBase, IsDcu
<1>2. rest \in Seq(Codes) /\ Len(rest) = Len(s.dcu.rtc) - 1 /\ Len(s.dcu.rtc) \in Nat
  BY <1>1, HeadTailProperties, LenProperties
<1>3. t = [s EXCEPT !.dcu = d]
  OBVIOUS
<1> HIDE DEF rest
<1>4. d \in [log : Seq(LogEntry), rtc : Seq(Codes)] /\ d.log = s.dcu.log /\ d.rtc = rest
  BY <1>1, <1>2
<1> HIDE DEF t, d
<1>5. t \in ManagerStates /\ t.dcu = d /\ SamePlan(s, t) /\ t.asked = s.asked
  BY <1>1, <1>3, <1>4 DEF ManagerStates, SamePlan
<1>6. Len(d.rtc) <= RtcMax
  BY <1>1, <1>2, <1>4, DividedAssumption
<1>7. ManagerInv(t)
  BY <1>4, <1>5, <1>6, SameEntries
<1> QED
  BY <1>7 DEF t

\* Cmd_DCU_CLEAR_LOG.
LEMMA ClearLogKeeps ==
  ASSUME NEW s, ManagerInv(s)
  PROVE  ManagerInv([s EXCEPT !.dcu.log = ClearedLog])
<1> DEFINE d == [s.dcu EXCEPT !.log = ClearedLog]
           t == [s EXCEPT !.dcu.log = ClearedLog]
<1>1. /\ s \in ManagerStates /\ s.dcu \in [log : Seq(LogEntry), rtc : Seq(Codes)]
      /\ Len(s.dcu.rtc) <= RtcMax /\ PlanOK(s) /\ ManagerBase(s)
  BY ManagerFields DEF ManagerInv, ManagerBase, IsDcu
<1>2. IsLog(ClearedLog) /\ ClearedLog \in Seq(LogEntry)
  BY ClearedLogFacts DEF IsLog
<1>3. t = [s EXCEPT !.dcu = d]
  OBVIOUS
<1>4. d \in [log : Seq(LogEntry), rtc : Seq(Codes)] /\ d.log = ClearedLog /\ d.rtc = s.dcu.rtc
  BY <1>1, <1>2
<1> HIDE DEF t, d
<1>5. t \in ManagerStates /\ t.dcu = d /\ SamePlan(s, t) /\ t.asked = s.asked
  BY <1>1, <1>3, <1>4 DEF ManagerStates, SamePlan
<1>6. PlanOK(t) /\ EntriesOK(t)
  BY <1>1, <1>4, <1>5, SamePlanKeeps, ClearedEntries
<1>7. ManagerBase(t)
  BY <1>1, <1>2, <1>4, <1>5 DEF ManagerBase, SamePlan, IsDcu
<1>8. ManagerInv(t)
  BY <1>6, <1>7 DEF ManagerInv
<1> QED
  BY <1>8 DEF t

\* TLM_MGR_init_by_am_.
LEMMA InitializeAppKeeps ==
  ASSUME NEW s, ManagerInv(s)
  PROVE  ManagerInv([s EXCEPT !.inited = FALSE])
<1> DEFINE t == [s EXCEPT !.inited = FALSE]
<1>1. s \in ManagerStates /\ EntriesOK(s) /\ ManagerBase(s)
  BY DEF ManagerInv, ManagerBase
<1>2. /\ t \in ManagerStates /\ t.dcu = s.dcu /\ t.known = s.known /\ ~t.inited /\ t.num = s.num
      /\ t.elem = s.elem /\ t.cells = s.cells /\ t.partly = s.partly /\ t.disturbed = s.disturbed
  BY <1>1 DEF ManagerStates
<1> HIDE DEF t
<1>3. \A e : EntryOK(s, e) => EntryOK(t, e)
  BY <1>2 DEF EntryOK, ClearInProgress, InitInProgress, IsCleared
<1>4. EntriesOK(t)
  BY <1>1, <1>2, <1>3 DEF EntriesOK
<1>5. ManagerBase(t)
  BY <1>1, <1>2 DEF ManagerBase
<1>6. ManagerInv(t)
  BY <1>2, <1>4, <1>5 DEF ManagerInv, PlanOK
<1> QED
  BY <1>6 DEF t

\* Cmd_TLM_MGR_CLEAR_USER_TLM: the executions are made one after the other.
LEMMA UserExecutedKeeps ==
  ASSUME NEW s, ManagerInv(s)
  PROVE  ManagerInv(UserExecuted(s)[Len(UserRoles)])
<1> DEFINE D == {t \in ManagerStates : ManagerInv(t)}
           n == Len(UserRoles)
           OneMore(t, i) == Executed(t, UserRoles[i])
           step == [i \in 1..n |-> [t \in D |-> OneMore(t, i)]]
           Body(f) == [i \in 0..n |-> IF i = 0 THEN s ELSE OneMore(f[i - 1], i)]
           executed == UserExecuted(s)
<1>1. executed = CHOOSE f : f = Body(f)
  BY DEF UserExecuted
<1>2. n \in Nat /\ \A i \in 1..n : UserRoles[i] \in Codes
  BY ManagerAssumption, ElementOfSeq DEF Codes
<1>3. ASSUME NEW i \in 1..n, NEW t \in D PROVE OneMore(t, i) \in D
  <2>1. ManagerInv(Executed(t, UserRoles[i]))
    BY <1>2, ExecutedKeeps
  <2> QED BY <2>1 DEF ManagerInv, ManagerBase
<1>4. s \in D
  BY DEF ManagerInv, ManagerBase
<1> HIDE DEF executed, OneMore, D, n
<1>5. step \in [1..n -> [D -> D]]
  BY <1>3
<1> HIDE DEF step
<1>6. PICK g \in [0..n -> D] : Iterates(g, s, step, n)
  BY <1>2, <1>4, <1>5, RecursionExists
<1> USE DEF step, Iterates
<1>7. g = Body(g)
  <2>1. ASSUME NEW i \in 0..n, i # 0 PROVE g[i] = OneMore(g[i - 1], i)
    <3>1. i \in 1..n /\ i - 1 \in 0..n
      BY <1>2, <2>1
    <3>2. g[i - 1] \in D /\ g[i] = step[i][g[i - 1]]
      BY <3>1, <1>6
    <3> QED BY <3>1, <3>2
  <2>2. \A i \in 0..n : g[i] = IF i = 0 THEN s ELSE OneMore(g[i - 1], i)
    BY <2>1, <1>6
  <2> QED BY <2>2
<1> HIDE DEF step
<1>8. executed = Body(executed)
  <2> HIDE DEF Body
  <2> QED BY <1>1, <1>7
<1>9. executed[0] = s /\ \A i \in 1..n : executed[i] = OneMore(executed[i - 1], i)
  <2>1. \A i \in 0..n : executed[i] = IF i = 0 THEN s ELSE OneMore(executed[i - 1], i)
    BY <1>8
  <2>2. 0 \in 0..n /\ \A i \in 1..n : i \in 0..n /\ i # 0
    BY <1>2
  <2> HIDE DEF Body
  <2> QED BY <2>1, <2>2
<1>10. \A i \in 0..n : executed[i] \in D
  <2> DEFINE S == {i \in Nat : i <= n => executed[i] \in D}
  <2>1. 0 \in S
    BY <1>4, <1>9
  <2>2. ASSUME NEW i \in Nat, i \in S PROVE i + 1 \in S
    <3>1. ASSUME i + 1 <= n PROVE executed[i + 1] \in D
      <4>1. i <= n /\ i + 1 \in 1..n /\ (i + 1) - 1 = i
        BY <1>2, <3>1
      <4>2. executed[i] \in D
        BY <4>1, <2>2
      <4> QED BY <4>1, <4>2, <1>3, <1>9
    <3> QED BY <3>1
  <2> HIDE DEF S
  <2>3. \A i \in Nat : i \in S
    BY <2>1, <2>2, NatSetInduction
  <2> QED BY <1>2, <2>3 DEF S
<1>11. executed[n] \in D
  BY <1>2, <1>10
<1> QED
  BY <1>11 DEF D, executed, n

\* Every step of the telemetry manager keeps its invariant.
LEMMA ManagerInductive ==
  ASSUME ManagerInv(tm), [ManagerNext]_tm
  PROVE  ManagerInv(tm)'
<1>1. CASE Dispatch
  <2> DEFINE code == Head(tm.dcu.rtc)
             s == Executed(tm, code)
             t == [s EXCEPT !.dcu.rtc = Tail(@)]
  <2>1. tm.dcu.rtc # <<>> /\ tm' = t
    BY <1>1 DEF Dispatch
  <2>2. tm.dcu.rtc \in Seq(Codes)
    BY ManagerFields DEF ManagerInv, ManagerBase
  <2>3. code \in Codes
    BY <2>1, <2>2, HeadTailProperties
  <2> HIDE DEF code
  <2>4. ManagerInv(s) /\ s.dcu.rtc # <<>>
    BY <2>1, <2>3, ExecutedKeeps, ExecutedDcu
  <2> HIDE DEF s
  <2>5. ManagerInv(t)
    BY <2>4, DropKeeps
  <2> QED BY <2>1, <2>5
<1>2. ASSUME NEW code \in Codes, Execute(code) PROVE ManagerInv(tm)'
  BY <1>2, ExecutedKeeps DEF Execute
<1>3. ASSUME NEW code \in Codes, Abort(code) PROVE ManagerInv(tm)'
  BY <1>3, AbortKeeps DEF Abort
<1>4. ASSUME NEW code \in Codes, DownAbortFlag(code) PROVE ManagerInv(tm)'
  BY <1>4, DownAbortFlagKeeps DEF DownAbortFlag
<1>5. ASSUME NEW r \in Roles, NEW c \in Commands, RegisterTlm(r, c) PROVE ManagerInv(tm)'
  BY <1>5, AddedKeeps DEF RegisterTlm
<1>6. ASSUME NEW r \in Roles, NEW c \in Commands, DeleteTlm(r, c) PROVE ManagerInv(tm)'
  BY <1>6, RemovedKeeps DEF DeleteTlm
<1>7. CASE UNCHANGED tm
  BY <1>7
<1>8. CASE ClearUser
  BY <1>8, UserExecutedKeeps DEF ClearUser
<1>9. CASE ClearLog
  BY <1>9, ClearLogKeeps DEF ClearLog
<1>10. CASE ClearRealtime
  BY <1>10, ClearRealtimeKeeps DEF ClearRealtime
<1>11. CASE InitializeApp
  BY <1>11, InitializeAppKeeps DEF InitializeApp
<1> QED
  BY <1>1, <1>2, <1>3, <1>4, <1>5, <1>6, <1>7, <1>8, <1>9, <1>10, <1>11
     DEF ManagerNext, Command, RegisterRefused, DeleteRefused

\* The invariant implies the properties.
LEMMA PlanFollows ==
  ManagerInv(tm) => PlanIsSound
<1> SUFFICES ASSUME ManagerInv(tm) PROVE PlanIsSound
  OBVIOUS
<1>1. /\ tm \in ManagerStates /\ IsDcu(tm.dcu) /\ EntriesOK(tm) /\ PlanOK(tm)
      /\ \A r \in Roles : tm.num[r] <= RoleCells(r)
  BY DEF ManagerInv, ManagerBase
<1>2. Len(BlockRoles) * CellsPerBlock \in Nat
  BY ManagerAssumption
<1>3. ManagerTypeOK
  <2>1. tm.num \in [Roles -> 0..(Len(BlockRoles) * CellsPerBlock)]
    <3>1. tm.num \in [Roles -> Nat]
      BY <1>1, ManagerFields
    <3> DEFINE m == Len(BlockRoles) * CellsPerBlock
    <3>2. ASSUME NEW r \in Roles PROVE tm.num[r] \in 0..m
      <4>1. tm.num[r] \in Nat /\ RoleCells(r) \in Nat /\ tm.num[r] <= RoleCells(r) /\ RoleCells(r) <= m
        BY <1>1, <3>1, SlotFacts
      <4> HIDE DEF m
      <4>2. m \in Nat
        BY <1>2 DEF m
      <4> QED BY <4>1, <4>2
    <3> HIDE DEF m
    <3>3. tm.num \in [Roles -> 0..m]
      BY <3>1, <3>2
    <3> QED BY <3>3 DEF m
  <2>2. /\ tm.elem \in [BlockNumbers -> [CellNumbers -> Commands \cup {Unregistered}]]
        /\ tm.cells \in [BlockNumbers -> [CellNumbers -> [cmd : Commands \cup {NopCmd, Leftover}, ti : CellNumbers]]]
        /\ tm.inited \in BOOLEAN /\ tm.known \in BOOLEAN /\ tm.dcu.rtc \in Seq(Codes)
    BY <1>1, ManagerFields DEF TelemetryCell
  <2>3. Len(tm.dcu.rtc) <= RtcMax /\ Len(tm.dcu.log) = LogMax /\ IsLog(tm.dcu.log) /\ DOMAIN tm.dcu.log = 1..LogMax
    BY <1>1 DEF IsDcu, IsLog
  <2>4. ASSUME NEW e \in ToSet(tm.dcu.log)
        PROVE  /\ e.code \in Codes \cup {NoCode} /\ e.status \in Statuses
               /\ e.code \in Roles => e.counter <= Len(BlocksOf(e.code))
               /\ e.status = "PROGRESS" /\ e.code \in Roles => e.counter < Len(BlocksOf(e.code))
               /\ e.code = "INIT" => e.counter <= Len(BlockRoles) + 1
    <3>1. PICK i \in 1..LogMax : e = tm.dcu.log[i]
      BY <2>3 DEF ToSet
    <3>2. EntryOK(tm, e)
      BY <1>1, <3>1 DEF EntriesOK
    <3>3. e \in LogEntry
      BY <2>3, <3>1, LogEntries
    <3> QED BY <3>2, <3>3, EntryFields DEF EntryOK, ClearInProgress
  <2> QED BY <2>1, <2>2, <2>3, <2>4 DEF ManagerTypeOK
<1>4. TableMatchesBlocks
  BY <1>1 DEF PlanOK, AllMatch, CellMatches, TableMatchesBlocks
<1>5. CommandsArePacked
  <2> SUFFICES ASSUME tm.inited, NEW r \in Roles \ tm.partly, NEW k \in 0..(Capacity(tm, r) - 1)
               PROVE  ElemAt(tm, Slot(r, k)) # Unregistered <=> k < tm.num[r]
    BY DEF CommandsArePacked
  <2>1. Packed(tm, r) /\ Capacity(tm, r) = RoleCells(r)
    BY <1>1 DEF PlanOK, Capacity, Size, RoleCells
  <2> QED BY <2>1 DEF Packed
<1> QED
  BY <1>3, <1>4, <1>5 DEF PlanIsSound

LEMMA SentFollows ==
  ManagerInv(tm) => RegisteredIsSent
<1> SUFFICES ASSUME ManagerInv(tm), tm.inited, NEW r \in Roles \ tm.partly, NEW c \in Commands
             PROVE  Sent(r, c) = tm.asked[r][c]
  BY DEF RegisteredIsSent
<1>1. AsAsked(tm, r) /\ Capacity(tm, r) = RoleCells(r)
  BY DEF ManagerInv, PlanOK, Capacity, Size, RoleCells
<1>2. Sent(r, c) = Cardinality(SentAt(tm, r, c))
  BY <1>1 DEF Sent, SentAt
<1> QED
  BY <1>1, <1>2 DEF AsAsked

\* The table, the blocks and the numbers of commands describe one plan.
THEOREM PlansAreSound == ManagerSpec => []PlanIsSound
<1>1. ManagerInit => ManagerInv(tm)
  BY BootInv DEF ManagerInit
<1>2. ManagerInv(tm) /\ [ManagerNext]_tm => ManagerInv(tm)'
  BY ManagerInductive
<1> QED
  BY <1>1, <1>2, PlanFollows, PTL DEF ManagerSpec

\* What is registered is what is sent.
THEOREM RegisteredTelemetryIsSent == ManagerSpec => []RegisteredIsSent
<1>1. ManagerInit => ManagerInv(tm)
  BY BootInv DEF ManagerInit
<1>2. ManagerInv(tm) /\ [ManagerNext]_tm => ManagerInv(tm)'
  BY ManagerInductive
<1> QED
  BY <1>1, <1>2, SentFollows, PTL DEF ManagerSpec
=============================================================================
