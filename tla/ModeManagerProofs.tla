------------------------- MODULE ModeManagerProofs -------------------------
(***************************************************************************)
(* Theorems about ModeManager, for all modes, blocks, tables and commands  *)
(* from the ground.                                                        *)
(*                                                                         *)
(* The end of a transition is a packet among others in the line.  Nothing  *)
(* but a deployment adds packets, and a deployment adds each command of    *)
(* its block at most once; so while the ground leaves ends alone, the line *)
(* has the end of the transition in progress, or none when that was        *)
(* removed (EndsKept).                                                     *)
(***************************************************************************)
EXTENDS ModeManager, CommonLemmas

\* The packets of a task list, and what a block can be.
Packet == [ti : Times, cmd : CommandSpace]
BlockState == [cmds : Seq(Packet), active : BOOLEAN]

\* The command that ends a transition.
IsEnd(packet) == packet.cmd.op = "FINISH"

\* At most one packet of the list ends a transition.
OneEnd(list) == \A i, j \in DOMAIN list : IsEnd(list[i]) /\ IsEnd(list[j]) => i = j

\* The types of the variables.
Typed ==
    /\ stat \in {"FINISHED", "IN_PROGRESS"}
    /\ previous \in Modes /\ current \in Modes
    /\ modeList \in [Modes -> Entries] /\ table \in [Modes -> [Modes -> Entries]]
    /\ blocks \in [Blocks -> BlockState]
    /\ line \in Seq(Packet)
    /\ taskList \in Blocks /\ total \in 0..MaxCycle
    /\ lost \in BOOLEAN /\ stray \in BOOLEAN /\ taskMode \in Modes \cup {NotDefined}

\* No block ends a transition twice.
BlocksEndOnce == \A b \in Blocks : OneEnd(blocks[b].cmds)

\* The transition in progress has one end in the line unless it was removed, and an idle
\* mode manager has none.
EndInLine ==
    ~stray => /\ OneEnd(line)
              /\ stat = "FINISHED" => ~HasEnd(line)
              /\ stat = "IN_PROGRESS" => (lost <=> ~HasEnd(line))

EndsKept == BlocksEndOnce /\ EndInLine

Inv == Typed /\ EndsKept

-----------------------------------------------------------------------------
(***************************************************************************)
(* What becomes of the ends in a list.                                     *)
(***************************************************************************)

\* The list after one packet was removed, and its ends.
LEMMA EndsOfRemoved ==
    ASSUME NEW list \in Seq(Packet), NEW new \in Seq(Packet), NEW p \in 1..Len(list),
           Len(new) = Len(list) - 1,
           \A i \in 1..(Len(list) - 1) : new[i] = IF i < p THEN list[i] ELSE list[i + 1]
    PROVE  /\ HasEnd(new) => HasEnd(list)
           /\ OneEnd(list) => OneEnd(new)
           /\ OneEnd(list) /\ IsEnd(list[p]) => ~HasEnd(new)
<1> DEFINE n == Len(list)
           from(i) == IF i < p THEN i ELSE i + 1
<1>1. n \in Nat /\ DOMAIN list = 1..n /\ DOMAIN new = 1..(n - 1)
  OBVIOUS
<1>2. \A i \in 1..(n - 1) : from(i) \in 1..n /\ new[i] = list[from(i)] /\ from(i) # p
  BY <1>1
<1>3. \A i, j \in 1..(n - 1) : from(i) = from(j) => i = j
  BY <1>1
<1> HIDE DEF from, n
<1>4. HasEnd(new) => HasEnd(list)
  BY <1>1, <1>2 DEF HasEnd
<1>5. OneEnd(list) => OneEnd(new)
  BY <1>1, <1>2, <1>3 DEF OneEnd
<1>6. OneEnd(list) /\ IsEnd(list[p]) => ~HasEnd(new)
  BY <1>1, <1>2 DEF OneEnd, HasEnd, IsEnd, n
<1> QED
  BY <1>4, <1>5, <1>6

\* Dropping the head of the line, and the packet at a time.
LEMMA EndsOfTail ==
    ASSUME NEW list \in Seq(Packet), list # <<>>
    PROVE  /\ Tail(list) \in Seq(Packet)
           /\ HasEnd(Tail(list)) => HasEnd(list)
           /\ OneEnd(list) => OneEnd(Tail(list))
           /\ OneEnd(list) /\ IsEnd(list[1]) => ~HasEnd(Tail(list))
<1>1. Tail(list) \in Seq(Packet) /\ Len(Tail(list)) = Len(list) - 1 /\ 1 \in 1..Len(list)
  BY HeadTailProperties
<1>2. \A i \in 1..(Len(list) - 1) : Tail(list)[i] = IF i < 1 THEN list[i] ELSE list[i + 1]
  BY HeadTailProperties
<1> DEFINE new == Tail(list)
<1> HIDE DEF new
<1>3. /\ new \in Seq(Packet) /\ Len(new) = Len(list) - 1
      /\ \A i \in 1..(Len(list) - 1) : new[i] = IF i < 1 THEN list[i] ELSE list[i + 1]
  BY <1>1, <1>2 DEF new
<1>4. /\ HasEnd(new) => HasEnd(list)
      /\ OneEnd(list) => OneEnd(new)
      /\ OneEnd(list) /\ IsEnd(list[1]) => ~HasEnd(new)
  BY <1>1, <1>3, EndsOfRemoved
<1> QED
  BY <1>3, <1>4 DEF new

\* TLCD_drop_tl_cmd_at_ adds no end.
LEMMA EndsOfDropped ==
    ASSUME NEW list \in Seq(Packet), NEW time \in Times
    PROVE  /\ DropAt(list, time) \in Seq(Packet)
           /\ HasEnd(DropAt(list, time)) => HasEnd(list)
           /\ OneEnd(list) => OneEnd(DropAt(list, time))
<1> DEFINE S == PlannedAt(list, time)
           p == Min(S)
<1>1. CASE S = {}
  BY <1>1 DEF DropAt
<1>2. CASE S # {}
  <2>1. S \subseteq 1..Len(list) /\ S \subseteq Nat
    BY DEF PlannedAt
  <2>2. p \in 1..Len(list)
    <3> HIDE DEF S
    <3> QED
      BY <1>2, <2>1, MinOfNats
  <2>3. DropAt(list, time) = RemoveAt(list, p)
    BY <1>2 DEF DropAt
  <2> HIDE DEF p
  <2>4. /\ RemoveAt(list, p) \in Seq(Packet) /\ Len(RemoveAt(list, p)) = Len(list) - 1
        /\ \A i \in 1..(Len(list) - 1) : RemoveAt(list, p)[i] = IF i < p THEN list[i] ELSE list[i + 1]
    BY <2>2, RemoveAtProperties
  <2> DEFINE new == RemoveAt(list, p)
  <2> HIDE DEF new
  <2>5. /\ new \in Seq(Packet) /\ Len(new) = Len(list) - 1
        /\ \A i \in 1..(Len(list) - 1) : new[i] = IF i < p THEN list[i] ELSE list[i + 1]
    BY <2>4 DEF new
  <2>6. (HasEnd(new) => HasEnd(list)) /\ (OneEnd(list) => OneEnd(new))
    BY <2>2, <2>5, EndsOfRemoved
  <2> QED
    BY <2>3, <2>5, <2>6 DEF new
<1> QED
  BY <1>1, <1>2

\* Inserting a packet that is no end leaves the ends as they are; inserting an end into a
\* list without one leaves one.
LEMMA EndsOfInserted ==
    ASSUME NEW list \in Seq(Packet), NEW at \in Packet, ~Occupied(list, at.ti)
    PROVE  /\ HasEnd(Inserted(list, at)) => HasEnd(list) \/ IsEnd(at)
           /\ OneEnd(list) /\ ~(IsEnd(at) /\ HasEnd(list)) => OneEnd(Inserted(list, at))
<1> DEFINE n == Len(list)
           new == Inserted(list, at)
<1>0. \A q \in Packet : q.ti \in Nat
  BY DEF Packet, Times
<1>1. PICK pos \in 1..(n + 1) :
        /\ new \in Seq(Packet) /\ Len(new) = n + 1
        /\ \A i \in 1..(n + 1) :
              new[i] = IF i < pos THEN list[i] ELSE IF i = pos THEN at ELSE list[i - 1]
  BY <1>0, InsertedElements
<1> DEFINE from(i) == IF i < pos THEN i ELSE i - 1
<1> HIDE DEF new
<1>2. n \in Nat /\ DOMAIN list = 1..n /\ DOMAIN new = 1..(n + 1)
  BY <1>1
<1>3. \A i \in 1..(n + 1) : i # pos => from(i) \in 1..n /\ new[i] = list[from(i)]
  BY <1>1, <1>2
<1>4. \A i, j \in 1..(n + 1) : i # pos /\ j # pos /\ from(i) = from(j) => i = j
  BY <1>2
<1>5. new[pos] = at
  BY <1>1, <1>2
<1> HIDE DEF n, from
<1>6. HasEnd(new) => HasEnd(list) \/ IsEnd(at)
  BY <1>2, <1>3, <1>5 DEF HasEnd, IsEnd
<1>7. ASSUME OneEnd(list), ~(IsEnd(at) /\ HasEnd(list)) PROVE OneEnd(new)
  <2> SUFFICES ASSUME NEW i \in 1..(n + 1), NEW j \in 1..(n + 1), IsEnd(new[i]), IsEnd(new[j])
               PROVE  i = j
    BY <1>2 DEF OneEnd
  <2>1. \A k \in 1..(n + 1) : k # pos /\ IsEnd(new[k]) => HasEnd(list) /\ IsEnd(list[from(k)])
    BY <1>2, <1>3 DEF HasEnd, IsEnd
  <2>2. CASE i = pos \/ j = pos
    BY <1>5, <1>7, <2>1, <2>2
  <2>3. CASE i # pos /\ j # pos
    BY <1>2, <1>3, <1>4, <1>7, <2>1, <2>3 DEF OneEnd
  <2> QED
    BY <2>2, <2>3
<1> QED
  BY <1>6, <1>7 DEF new

\* A list without an end has at most one.
LEMMA NoEndIsOne ==
    ASSUME NEW list, ~HasEnd(list)
    PROVE  OneEnd(list)
  BY DEF HasEnd, OneEnd, IsEnd

\* A deployment brings the ends of its block, each at most once.
LEMMA EndsOfDeployed ==
    ASSUME NEW list \in Seq(Packet), NEW block \in Seq(Packet), NEW now \in Nat
    PROVE  /\ Deployed(list, Capacity, block, now, CycleMod).list \in Seq(Packet)
           /\ HasEnd(Deployed(list, Capacity, block, now, CycleMod).list)
                 => HasEnd(list) \/ HasEnd(block)
           /\ OneEnd(list) /\ OneEnd(block) /\ ~(HasEnd(list) /\ HasEnd(block))
                 => OneEnd(Deployed(list, Capacity, block, now, CycleMod).list)
<1> DEFINE n == Len(block)
<1>0. /\ n \in Nat /\ n \in 0..n /\ DOMAIN block = 1..n
      /\ Capacity \in Nat /\ CycleMod \in Nat \ {0}
  BY ModeAssumption
<1>1. \A p \in Packet : p.ti \in Nat
  BY DEF Packet, Times
<1>2. IsBlock(block, Packet, CycleMod)
  <2>1. \A i \in 1..n : block[i] \in Packet
    OBVIOUS
  <2>2. ASSUME NEW command \in Packet PROVE Placeable(command, Packet, CycleMod)
    BY <1>1 DEF Placeable, Packet, Times
  <2> QED
    BY <1>0, <2>1, <2>2 DEF IsBlock
<1>3. PICK after \in [0..Len(block) -> Seq(Packet)] :
           /\ after[0] = list \/ after[0] = <<>>
           /\ after[Len(block)] = Deployed(list, Capacity, block, now, CycleMod).list
           /\ GrowsAlong(after, block, Packet)
  <2>1. Capacity \in Nat /\ CycleMod \in Nat \ {0}
    BY <1>0
  <2>2. GrowsTo(list, block, Deployed(list, Capacity, block, now, CycleMod).list, Packet)
    BY <2>1, <1>1, <1>2, DeployedSteps
  <2> QED
    BY <2>2 DEF GrowsTo
<1>4. ~HasEnd(<<>>) /\ OneEnd(<<>>)
  BY DEF HasEnd, OneEnd
<1> DEFINE Brought(i) == \E k \in 1..i : IsEnd(block[k])
           Apart == OneEnd(list) /\ OneEnd(block) /\ ~(HasEnd(list) /\ HasEnd(block))
           Good(i) == /\ HasEnd(after[i]) => HasEnd(list) \/ Brought(i)
                      /\ Apart => OneEnd(after[i])
           S == {i \in Nat : i <= n => Good(i)}
<1>5. 0 \in S
  BY <1>3, <1>4
<1>6. ASSUME NEW i \in Nat, i \in S PROVE i + 1 \in S
  <2> SUFFICES ASSUME i + 1 <= n PROVE Good(i + 1)
    OBVIOUS
  <2>1. i <= n /\ i \in 0..n /\ i + 1 \in 1..n /\ (i + 1) - 1 = i
    BY <1>0
  <2>2. after[i] \in Seq(Packet) /\ Good(i)
    BY <2>1, <1>3, <1>6
  <2>3. \/ after[i + 1] = after[i]
        \/ \E at \in Packet : /\ at.cmd = block[i + 1].cmd /\ ~Occupied(after[i], at.ti)
                              /\ after[i + 1] = Inserted(after[i], at)
    BY <2>1, <1>3 DEF GrowsAlong
  <2>4. Brought(i) => Brought(i + 1)
    BY <2>1
  <2>5. IsEnd(block[i + 1]) => Brought(i + 1)
    BY <2>1
  <2>6. Brought(i) => HasEnd(block)
    <3>1. \A k \in 1..i : k \in DOMAIN block
      BY <1>0, <2>1
    <3> QED
      BY <3>1 DEF HasEnd, IsEnd
  <2>7. IsEnd(block[i + 1]) => HasEnd(block)
    BY <1>0, <2>1 DEF HasEnd, IsEnd
  <2>8. ASSUME Apart, Brought(i) PROVE ~IsEnd(block[i + 1])
    <3>1. PICK k \in 1..i : IsEnd(block[k])
      BY <2>8
    <3>2. k \in 1..n /\ k # i + 1
      BY <1>0, <2>1
    <3> QED
      BY <1>0, <2>1, <2>8, <3>1, <3>2 DEF OneEnd
  <2> HIDE DEF Brought
  <2>9. CASE after[i + 1] = after[i]
    BY <2>2, <2>4, <2>9
  <2>10. ASSUME NEW at \in Packet, at.cmd = block[i + 1].cmd, ~Occupied(after[i], at.ti),
                after[i + 1] = Inserted(after[i], at)
         PROVE  Good(i + 1)
    <3>1. IsEnd(at) <=> IsEnd(block[i + 1])
      BY <2>10 DEF IsEnd
    <3>2. /\ HasEnd(after[i + 1]) => HasEnd(after[i]) \/ IsEnd(at)
          /\ OneEnd(after[i]) /\ ~(IsEnd(at) /\ HasEnd(after[i])) => OneEnd(after[i + 1])
      BY <2>2, <2>10, EndsOfInserted
    <3> QED
      BY <2>2, <2>4, <2>5, <2>7, <2>8, <3>1, <3>2
  <2> QED
    BY <2>3, <2>9, <2>10
<1> HIDE DEF S
<1>7. \A i \in Nat : i \in S
  BY <1>5, <1>6, NatSetInduction
<1>8. Good(n)
  BY <1>0, <1>7 DEF S
<1>9. Brought(n) => HasEnd(block)
  BY <1>0 DEF HasEnd, IsEnd
<1>10. after[n] \in Seq(Packet)
  BY <1>0, <1>3
<1> QED
  BY <1>3, <1>8, <1>9, <1>10

-----------------------------------------------------------------------------
(***************************************************************************)
(* The line after a command.                                               *)
(***************************************************************************)

\* The packet that is dropped when a command of the line returns.
LEMMA EndsOfLeft ==
    ASSUME NEW list \in Seq(Packet), NEW own \in BOOLEAN
    PROVE  /\ Left(list, own) \in Seq(Packet)
           /\ HasEnd(Left(list, own)) => HasEnd(list)
           /\ OneEnd(list) => OneEnd(Left(list, own))
           /\ own /\ list # <<>> /\ IsEnd(list[1]) /\ OneEnd(list) => ~HasEnd(Left(list, own))
<1>1. CASE own /\ list # <<>>
  BY <1>1, EndsOfTail DEF Left
<1>2. CASE ~(own /\ list # <<>>)
  BY <1>2 DEF Left
<1> QED
  BY <1>1, <1>2

\* A block deployed onto the line, or refused because it is inactive.
LEMMA EndsOfDeployedOnto ==
    ASSUME Typed, NEW list \in Seq(Packet), NEW block \in Blocks
    PROVE  /\ DeployedOnto(list, block) \in Seq(Packet)
           /\ HasEnd(DeployedOnto(list, block)) => HasEnd(list) \/ HasEnd(blocks[block].cmds)
           /\ OneEnd(list) /\ OneEnd(blocks[block].cmds)
                 /\ ~(HasEnd(list) /\ HasEnd(blocks[block].cmds))
                 => OneEnd(DeployedOnto(list, block))
<1>1. total \in Nat
  BY ModeAssumption DEF Typed
<1>2. blocks[block].cmds \in Seq(Packet)
  BY DEF Typed, BlockState
<1>3. CASE blocks[block].active
  <2>1. DeployedOnto(list, block) = Deployed(list, Capacity, blocks[block].cmds, total, CycleMod).list
    BY <1>3 DEF DeployedOnto
  <2> DEFINE cmds == blocks[block].cmds
             new == Deployed(list, Capacity, cmds, total, CycleMod).list
  <2> HIDE DEF cmds
  <2>2. /\ new \in Seq(Packet)
        /\ HasEnd(new) => HasEnd(list) \/ HasEnd(cmds)
        /\ OneEnd(list) /\ OneEnd(cmds) /\ ~(HasEnd(list) /\ HasEnd(cmds)) => OneEnd(new)
    BY <1>1, <1>2, EndsOfDeployed DEF cmds
  <2> QED
    BY <2>1, <2>2 DEF cmds
<1>4. CASE ~blocks[block].active
  BY <1>4 DEF DeployedOnto
<1> QED
  BY <1>3, <1>4

-----------------------------------------------------------------------------
(***************************************************************************)
(* The commands.                                                           *)
(***************************************************************************)

\* A command that is run is one of the commands, and one of the line is its head.
LEMMA RunsACommand ==
    ASSUME Typed, NEW cmd, NEW own \in BOOLEAN, own => line # <<>>, Runs(cmd, own)
    PROVE  cmd \in CommandSpace /\ (own => cmd = line[1].cmd)
<1>1. CASE own
  <2>1. line[1] \in Packet
    BY <1>1 DEF Typed
  <2> QED
    BY <1>1, <2>1 DEF Runs, Packet
<1>2. CASE ~own
  BY <1>2, ModeAssumption DEF Runs
<1> QED
  BY <1>1, <1>2

\* The parameters of the commands.
LEMMA Parameters ==
    ASSUME NEW cmd \in CommandSpace
    PROVE  /\ cmd.op = "START" => cmd.to \in Modes
           /\ cmd.op \in {"DEPLOY", "ACTIVATE", "INACTIVATE", "CLEAR_BLOCK", "SET_TASK_LIST"}
                 => cmd.block \in Blocks
           /\ cmd.op = "CLEAR_AT" => cmd.at \in Times
           /\ cmd.op = "SET_MODE_LIST" => cmd.mode \in Modes /\ cmd.block \in Entries
           /\ cmd.op = "SET_TRANSITION_TABLE"
                 => cmd.from \in Modes /\ cmd.to \in Modes /\ cmd.block \in Entries
  BY DEF CommandSpace

\* A command that leaves the mode manager alone and adds no end to the line.
LEMMA QuietLine ==
    ASSUME Inv, NEW own \in BOOLEAN, NEW list \in Seq(Packet), Leaves(list, own),
           HasEnd(list) => HasEnd(line), OneEnd(line) => OneEnd(list),
           stat' = stat, stray' = stray
    PROVE  line' \in Seq(Packet) /\ lost' \in BOOLEAN /\ EndInLine'
<1>1. /\ line' = Left(list, own)
      /\ lost' = (lost \/ (stat = "IN_PROGRESS" /\ HasEnd(line) /\ ~HasEnd(line')))
  BY DEF Leaves
<1>2. /\ line' \in Seq(Packet)
      /\ HasEnd(line') => HasEnd(line)
      /\ OneEnd(line) => OneEnd(line')
  BY <1>1, EndsOfLeft
<1>3. lost \in BOOLEAN
  BY DEF Inv, Typed
<1>4. lost' \in BOOLEAN
  BY <1>1, <1>3
<1>5. EndInLine'
  <2> SUFFICES ASSUME ~stray
               PROVE  /\ OneEnd(line')
                      /\ stat = "FINISHED" => ~HasEnd(line')
                      /\ stat = "IN_PROGRESS" => (lost' <=> ~HasEnd(line'))
    BY DEF EndInLine, HasEnd, OneEnd
  <2>1. /\ OneEnd(line)
        /\ stat = "FINISHED" => ~HasEnd(line)
        /\ stat = "IN_PROGRESS" => (lost <=> ~HasEnd(line))
    BY DEF Inv, EndsKept, EndInLine
  <2>2. OneEnd(line') /\ (stat = "FINISHED" => ~HasEnd(line'))
    BY <1>2, <2>1
  <2>3. stat = "IN_PROGRESS" => (lost' <=> ~HasEnd(line'))
    BY <1>1, <1>2, <2>1
  <2> QED
    BY <2>2, <2>3
<1> QED
  BY <1>2, <1>4, <1>5

\* The same when the line itself is left.
LEMMA SameLine ==
    ASSUME Inv, NEW own \in BOOLEAN, Leaves(line, own), stat' = stat, stray' = stray
    PROVE  line' \in Seq(Packet) /\ lost' \in BOOLEAN /\ EndInLine'
  BY QuietLine DEF Inv, Typed

\* The start of a transition puts its end into a line that had none.
LEMMA StartStep ==
    ASSUME Inv, NEW cmd \in CommandSpace, NEW own \in BOOLEAN, Start(cmd, own)
    PROVE  Inv'
<1> DEFINE block == table[current][cmd.to]
           list == DeployedOnto(line, block)
<1>1. /\ cmd.op = "START" /\ stat = "FINISHED" /\ block # NotDefined
      /\ line' = Left(list, own)
      /\ previous' = current /\ current' = cmd.to /\ stat' = "IN_PROGRESS"
      /\ lost' = ~HasEnd(line')
      /\ UNCHANGED <<modeList, table, blocks, taskList, total, stray, taskMode>>
  BY DEF Start, MayStart, tables
<1>2. cmd.to \in Modes
  BY <1>1, Parameters
<1>3. block \in Blocks
  BY <1>1, <1>2 DEF Inv, Typed, Entries
<1> HIDE DEF block
<1>4. /\ list \in Seq(Packet)
      /\ OneEnd(line) /\ OneEnd(blocks[block].cmds) /\ ~(HasEnd(line) /\ HasEnd(blocks[block].cmds))
            => OneEnd(list)
  BY <1>3, EndsOfDeployedOnto DEF Inv, Typed
<1> HIDE DEF list
<1>5. /\ line' \in Seq(Packet)
      /\ OneEnd(list) => OneEnd(line')
  BY <1>1, <1>4, EndsOfLeft
<1>6. Typed'
  BY <1>1, <1>2, <1>5 DEF Inv, Typed
<1>7. BlocksEndOnce'
  BY <1>1 DEF Inv, EndsKept, BlocksEndOnce, OneEnd
<1>8. EndInLine'
  <2>1. ~stray => OneEnd(line) /\ ~HasEnd(line)
    BY <1>1 DEF Inv, EndsKept, EndInLine
  <2>2. OneEnd(blocks[block].cmds)
    BY <1>3 DEF Inv, EndsKept, BlocksEndOnce
  <2>3. ~stray => OneEnd(line')
    BY <2>1, <2>2, <1>4, <1>5
  <2>4. stat' = "IN_PROGRESS" /\ stray' = stray /\ (lost' <=> ~HasEnd(line'))
    BY <1>1
  <2> QED
    BY <2>3, <2>4 DEF EndInLine, HasEnd, OneEnd
<1> QED
  BY <1>6, <1>7, <1>8 DEF Inv, EndsKept

\* The end of a transition: the line loses its only end when it runs there, and has none
\* when a command from the ground ends a transition whose end was lost.
LEMMA FinishStep ==
    ASSUME Inv, NEW cmd \in CommandSpace, NEW own \in BOOLEAN, Finish(cmd, own),
           own => line # <<>> /\ cmd = line[1].cmd
    PROVE  Inv'
<1>1. /\ cmd.op = "FINISH" /\ stat = "IN_PROGRESS"
      /\ line' = Left(line, own) /\ stat' = "FINISHED" /\ lost' = FALSE
      /\ stray' = (stray \/ (~own /\ ~lost))
      /\ taskList' = taskList \/ (taskList' = modeList[current] /\ Selectable(modeList[current]))
      /\ taskMode' = NotDefined \/ taskMode' = current
      /\ UNCHANGED <<previous, current, modeList, table, blocks, total>>
  BY DEF Finish, NextList, tables
<1>2. /\ line' \in Seq(Packet)
      /\ HasEnd(line') => HasEnd(line)
      /\ OneEnd(line) => OneEnd(line')
      /\ own /\ line # <<>> /\ IsEnd(line[1]) /\ OneEnd(line) => ~HasEnd(line')
  BY <1>1, EndsOfLeft DEF Inv, Typed
<1>3. taskList' \in Blocks
  BY <1>1 DEF Inv, Typed, Selectable, Entries
<1>4. Typed'
  BY <1>1, <1>2, <1>3 DEF Inv, Typed
<1>5. BlocksEndOnce'
  BY <1>1 DEF Inv, EndsKept, BlocksEndOnce, OneEnd
<1>6. EndInLine'
  <2> SUFFICES ASSUME ~stray' PROVE OneEnd(line') /\ ~HasEnd(line')
    BY <1>1 DEF EndInLine, HasEnd, OneEnd
  <2>1. ~stray /\ (own \/ lost)
    BY <1>1
  <2>2. OneEnd(line) /\ (lost <=> ~HasEnd(line))
    BY <1>1, <2>1 DEF Inv, EndsKept, EndInLine
  <2>3. CASE own
    <3>1. IsEnd(line[1])
      BY <1>1, <2>3 DEF IsEnd
    <3> QED
      BY <1>2, <2>2, <2>3, <3>1
  <2>4. CASE lost
    BY <1>2, <2>2, <2>4
  <2> QED
    BY <2>1, <2>3, <2>4
<1> QED
  BY <1>4, <1>5, <1>6 DEF Inv, EndsKept

\* The commands that change nothing but the line, which gains no end.
LEMMA LineStep ==
    ASSUME Inv, NEW cmd \in CommandSpace, NEW own \in BOOLEAN,
           \/ RefuseStart(cmd, own) \/ RefuseFinish(cmd, own) \/ Nop(cmd, own)
           \/ ClearAll(cmd, own) \/ ClearAt(cmd, own)
    PROVE  Inv'
<1>1. UNCHANGED <<modeVars, tables, total, stray>>
  BY DEF RefuseStart, RefuseFinish, Nop, ClearAll, ClearAt
<1>2. line' \in Seq(Packet) /\ lost' \in BOOLEAN /\ EndInLine'
  <2>0. stat' = stat /\ stray' = stray
    BY <1>1 DEF modeVars
  <2>1. CASE RefuseStart(cmd, own) \/ RefuseFinish(cmd, own) \/ Nop(cmd, own)
    <3>1. Leaves(line, own)
      BY <2>1 DEF RefuseStart, RefuseFinish, Nop
    <3> QED
      BY <2>0, <3>1, SameLine
  <2>2. CASE ClearAll(cmd, own)
    <3>1. Leaves(<<>>, own) /\ <<>> \in Seq(Packet)
      BY <2>2 DEF ClearAll
    <3>2. ~HasEnd(<<>>) /\ OneEnd(<<>>)
      BY DEF HasEnd, OneEnd
    <3> QED
      BY <2>0, <3>1, <3>2, QuietLine
  <2>3. CASE ClearAt(cmd, own)
    <3>1. Leaves(DropAt(line, cmd.at), own) /\ cmd.at \in Times
      BY <2>3, Parameters DEF ClearAt
    <3>2. /\ DropAt(line, cmd.at) \in Seq(Packet)
          /\ HasEnd(DropAt(line, cmd.at)) => HasEnd(line)
          /\ OneEnd(line) => OneEnd(DropAt(line, cmd.at))
      BY <3>1, EndsOfDropped DEF Inv, Typed
    <3> QED
      BY <2>0, <3>1, <3>2, QuietLine
  <2> QED
    BY <2>1, <2>2, <2>3
<1>3. Typed'
  BY <1>1, <1>2 DEF Inv, Typed, modeVars, tables
<1>4. BlocksEndOnce'
  BY <1>1 DEF Inv, EndsKept, BlocksEndOnce, OneEnd, tables
<1> QED
  BY <1>2, <1>3, <1>4 DEF Inv, EndsKept

\* A block that the ground deploys brings no end, or the ground has meddled with ends.
LEMMA DeployStep ==
    ASSUME Inv, NEW cmd \in CommandSpace, NEW own \in BOOLEAN, Deploy(cmd, own)
    PROVE  Inv'
<1> DEFINE list == DeployedOnto(line, cmd.block)
<1>1. /\ cmd.op = "DEPLOY" /\ Leaves(list, own)
      /\ stray' = (stray \/ EndsTransition(cmd.block))
      /\ UNCHANGED <<modeVars, tables, total>>
  BY DEF Deploy
<1>2. cmd.block \in Blocks
  BY <1>1, Parameters
<1>3. /\ list \in Seq(Packet)
      /\ HasEnd(list) => HasEnd(line) \/ HasEnd(blocks[cmd.block].cmds)
      /\ OneEnd(line) /\ OneEnd(blocks[cmd.block].cmds)
            /\ ~(HasEnd(line) /\ HasEnd(blocks[cmd.block].cmds)) => OneEnd(list)
  BY <1>2, EndsOfDeployedOnto DEF Inv, Typed
<1>4. EndsTransition(cmd.block) <=> HasEnd(blocks[cmd.block].cmds)
  BY DEF EndsTransition, HasEnd
<1>5. OneEnd(blocks[cmd.block].cmds)
  BY <1>2 DEF Inv, EndsKept, BlocksEndOnce
<1> HIDE DEF list
<1>6. line' \in Seq(Packet) /\ lost' \in BOOLEAN /\ EndInLine'
  <2>0. stat' = stat
    BY <1>1 DEF modeVars
  <2>1. CASE EndsTransition(cmd.block)
    <3>1. line' = Left(list, own)
          /\ lost' = (lost \/ (stat = "IN_PROGRESS" /\ HasEnd(line) /\ ~HasEnd(line')))
      BY <1>1 DEF Leaves
    <3>2. line' \in Seq(Packet)
      BY <1>3, <3>1, EndsOfLeft
    <3>3. lost' \in BOOLEAN
      BY <3>1 DEF Inv, Typed
    <3> QED
      BY <1>1, <2>1, <3>2, <3>3 DEF EndInLine
  <2>2. CASE ~EndsTransition(cmd.block)
    <3>1. stray' = stray
      BY <1>1, <2>2 DEF Inv, Typed
    <3>2. (HasEnd(list) => HasEnd(line)) /\ (OneEnd(line) => OneEnd(list))
      BY <1>3, <1>4, <1>5, <2>2
    <3> QED
      BY <1>1, <1>3, <2>0, <3>1, <3>2, QuietLine
  <2> QED
    BY <2>1, <2>2
<1>7. stray' \in BOOLEAN
  BY <1>1 DEF Inv, Typed, EndsTransition
<1>8. Typed'
  BY <1>1, <1>6, <1>7 DEF Inv, Typed, modeVars, tables
<1>9. BlocksEndOnce'
  BY <1>1 DEF Inv, EndsKept, BlocksEndOnce, OneEnd, tables
<1> QED
  BY <1>6, <1>8, <1>9 DEF Inv, EndsKept

\* The commands that change the tables of the mode manager or the task list.
LEMMA TableStep ==
    ASSUME Inv, NEW cmd \in CommandSpace, NEW own \in BOOLEAN,
           SetModeList(cmd, own) \/ SetTransitionTable(cmd, own) \/ SetTaskList(cmd, own)
    PROVE  Inv'
<1>1. /\ Leaves(line, own)
      /\ UNCHANGED <<stat, previous, current, blocks, total, stray>>
  BY DEF SetModeList, SetTransitionTable, SetTaskList, modeVars, tables
<1>2. line' \in Seq(Packet) /\ lost' \in BOOLEAN /\ EndInLine'
  BY <1>1, SameLine
<1>3. modeList' \in [Modes -> Entries]
  <2>1. CASE SetModeList(cmd, own)
    <3>1. cmd.mode \in Modes /\ cmd.block \in Entries
      BY <2>1, Parameters DEF SetModeList
    <3> QED
      BY <2>1, <3>1 DEF SetModeList, Inv, Typed
  <2>2. CASE ~SetModeList(cmd, own)
    BY <2>2 DEF SetTransitionTable, SetTaskList, tables, Inv, Typed
  <2> QED
    BY <2>1, <2>2
<1>4. table' \in [Modes -> [Modes -> Entries]]
  <2>1. CASE SetTransitionTable(cmd, own)
    <3>1. cmd.from \in Modes /\ cmd.to \in Modes /\ cmd.block \in Entries
      BY <2>1, Parameters DEF SetTransitionTable
    <3>2. table[cmd.from] \in [Modes -> Entries]
      BY <3>1 DEF Inv, Typed
    <3>3. [table[cmd.from] EXCEPT ![cmd.to] = cmd.block] \in [Modes -> Entries]
      BY <3>1, <3>2
    <3>4. \/ table' = table
          \/ table' = [table EXCEPT ![cmd.from] = [table[cmd.from] EXCEPT ![cmd.to] = cmd.block]]
      BY <2>1 DEF SetTransitionTable
    <3> QED
      BY <3>1, <3>3, <3>4 DEF Inv, Typed
  <2>2. CASE ~SetTransitionTable(cmd, own)
    BY <2>2 DEF SetModeList, SetTaskList, tables, Inv, Typed
  <2> QED
    BY <2>1, <2>2
<1>5. taskList' \in Blocks /\ taskMode' \in Modes \cup {NotDefined}
  <2>1. CASE SetTaskList(cmd, own)
    <3>1. cmd.block \in Blocks
      BY <2>1, Parameters DEF SetTaskList
    <3> QED
      BY <2>1, <3>1 DEF SetTaskList, Inv, Typed
  <2>2. CASE ~SetTaskList(cmd, own)
    BY <2>2 DEF SetModeList, SetTransitionTable, modeVars, Inv, Typed
  <2> QED
    BY <2>1, <2>2
<1>6. Typed'
  BY <1>1, <1>2, <1>3, <1>4, <1>5 DEF Inv, Typed
<1>7. BlocksEndOnce'
  BY <1>1 DEF Inv, EndsKept, BlocksEndOnce, OneEnd
<1> QED
  BY <1>2, <1>6, <1>7 DEF Inv, EndsKept

\* A block keeps its commands or loses them all.
LEMMA BlockStep ==
    ASSUME Inv, NEW cmd \in CommandSpace, NEW own \in BOOLEAN, SetBlock(cmd, own)
    PROVE  Inv'
<1> DEFINE b == cmd.block
<1>1. /\ Leaves(line, own)
      /\ UNCHANGED <<stat, previous, current, taskList, taskMode, modeList, table, total, stray>>
  BY DEF SetBlock, modeVars
<1>2. line' \in Seq(Packet) /\ lost' \in BOOLEAN /\ EndInLine'
  BY <1>1, SameLine
<1>3. b \in Blocks
  BY Parameters DEF SetBlock
<1>4. \/ blocks' = [blocks EXCEPT ![b].active = TRUE]
      \/ blocks' = [blocks EXCEPT ![b].active = FALSE]
      \/ blocks' = [blocks EXCEPT ![b] = [cmds |-> <<>>, active |-> FALSE]]
  BY DEF SetBlock
<1> HIDE DEF b
<1>5. blocks \in [Blocks -> BlockState]
  BY DEF Inv, Typed
<1>6. [cmds |-> <<>>, active |-> FALSE] \in BlockState
  BY DEF BlockState
<1>7. blocks[b] \in BlockState /\ \A a \in BOOLEAN : [blocks[b] EXCEPT !.active = a] \in BlockState
  BY <1>3, <1>5 DEF BlockState
<1>8. /\ blocks' \in [Blocks -> BlockState]
      /\ \A c \in Blocks : blocks'[c].cmds = blocks[c].cmds \/ blocks'[c].cmds = <<>>
  <2>1. CASE \E a \in BOOLEAN : blocks' = [blocks EXCEPT ![b].active = a]
    <3>1. PICK a \in BOOLEAN : blocks' = [blocks EXCEPT ![b] = [blocks[b] EXCEPT !.active = a]]
      BY <2>1
    <3>2. blocks' \in [Blocks -> BlockState]
      BY <1>3, <1>5, <1>7, <3>1
    <3>3. [blocks[b] EXCEPT !.active = a].cmds = blocks[b].cmds
      BY <1>7 DEF BlockState
    <3>4. \A c \in Blocks : blocks'[c].cmds = blocks[c].cmds
      BY <1>3, <1>5, <3>1, <3>3
    <3> QED
      BY <3>2, <3>4
  <2>2. CASE blocks' = [blocks EXCEPT ![b] = [cmds |-> <<>>, active |-> FALSE]]
    <3>1. blocks' \in [Blocks -> BlockState]
      BY <1>3, <1>5, <1>6, <2>2
    <3>2. \A c \in Blocks : blocks'[c].cmds = blocks[c].cmds \/ blocks'[c].cmds = <<>>
      BY <1>3, <1>5, <2>2
    <3> QED
      BY <3>1, <3>2
  <2> QED
    BY <1>4, <2>1, <2>2
<1>9. Typed'
  BY <1>1, <1>2, <1>8 DEF Inv, Typed
<1>10. BlocksEndOnce'
  <2>1. \A c \in Blocks : OneEnd(blocks[c].cmds)
    BY DEF Inv, EndsKept, BlocksEndOnce
  <2>2. OneEnd(<<>>)
    BY DEF OneEnd
  <2>3. \A c \in Blocks : OneEnd(blocks'[c].cmds)
    BY <1>8, <2>1, <2>2
  <2> QED
    BY <2>3 DEF BlocksEndOnce, OneEnd
<1> QED
  BY <1>2, <1>9, <1>10 DEF Inv, EndsKept

\* Every step of the mode manager and of the line.
LEMMA NextStep == Inv /\ [Next]_vars => Inv'
<1> SUFFICES ASSUME Inv, [Next]_vars PROVE Inv'
  OBVIOUS
<1>1. ASSUME NEW cmd, NEW own \in BOOLEAN, own => line # <<>> /\ cmd = line[1].cmd, Execute(cmd, own)
      PROVE  Inv'
  <2>1. cmd \in CommandSpace
    BY <1>1, RunsACommand DEF Execute, Inv
  <2> QED
    BY <1>1, <2>1, StartStep, FinishStep, LineStep, DeployStep, TableStep, BlockStep DEF Execute
<1>2. CASE RunLine
  BY <1>1, <1>2 DEF RunLine
<1>3. CASE RunGround
  BY <1>1, <1>3 DEF RunGround
<1>4. CASE Tick
  <2>1. total' \in 0..MaxCycle
    BY <1>4, ModeAssumption DEF Tick, Inv, Typed
  <2>2. UNCHANGED <<stat, previous, current, modeList, table, blocks, line, taskList, lost, stray, taskMode>>
    BY <1>4 DEF Tick, modeVars, tables
  <2> QED
    BY <2>1, <2>2 DEF Inv, Typed, EndsKept, BlocksEndOnce, EndInLine, OneEnd, HasEnd
<1>5. CASE UNCHANGED vars
  BY <1>5 DEF vars, Inv, Typed, EndsKept, BlocksEndOnce, EndInLine, OneEnd, HasEnd
<1> QED
  BY <1>2, <1>3, <1>4, <1>5 DEF Next

\* The transition of MM_initialize, or none.
LEMMA Initially == Init => Inv
<1> SUFFICES ASSUME Init PROVE Inv
  OBVIOUS
<1> DEFINE first == TransitionTable[StartUpMode][InitialMode]
<1>1. first \in Entries /\ ModeList[StartUpMode] \in Blocks
  BY ModeAssumption DEF Entries
<1>2. /\ modeList = ModeList /\ table = TransitionTable
      /\ blocks = [b \in Blocks |-> [cmds |-> BlockCmds[b], active |-> TRUE]]
      /\ previous = StartUpMode
      /\ taskList = ModeList[StartUpMode] /\ taskMode = StartUpMode
      /\ total = 0 /\ stray = FALSE
  BY DEF Init
<1>3. \A b \in Blocks : BlockCmds[b] \in Seq(Packet) /\ OneEnd(BlockCmds[b])
  <2>1. \A b \in Blocks : OneEnd(BlockCmds[b])
    BY EndAssumption DEF OneEnd, IsEnd
  <2> QED
    BY <2>1, ModeAssumption DEF Packet
<1>4. blocks \in [Blocks -> BlockState]
  BY <1>2, <1>3 DEF BlockState
<1>5. BlocksEndOnce
  BY <1>2, <1>3 DEF BlocksEndOnce
<1>6. <<>> \in Seq(Packet) /\ ~HasEnd(<<>>) /\ OneEnd(<<>>)
  BY DEF HasEnd, OneEnd
<1>7. /\ line \in Seq(Packet) /\ stat \in {"FINISHED", "IN_PROGRESS"} /\ current \in Modes
      /\ lost \in BOOLEAN /\ EndInLine
  <2>1. CASE first = NotDefined
    <3>1. line = <<>> /\ stat = "FINISHED" /\ current = StartUpMode /\ lost = FALSE
      BY <2>1 DEF Init
    <3> QED
      BY <3>1, <1>6, ModeAssumption DEF EndInLine
  <2>2. CASE first # NotDefined
    <3>1. first \in Blocks
      BY <1>1, <2>2 DEF Entries
    <3>2. PICK boot \in BootCycles :
             line = Deployed(<<>>, Capacity, BlockCmds[first], boot, CycleMod).list
      BY <2>2 DEF Init
    <3>3. stat = "IN_PROGRESS" /\ current = InitialMode /\ lost = ~HasEnd(line)
      BY <2>2 DEF Init
    <3>4. boot \in Nat
      BY ModeAssumption DEF Times
    <3> HIDE DEF first
    <3>5. BlockCmds[first] \in Seq(Packet) /\ OneEnd(BlockCmds[first])
      BY <1>3, <3>1
    <3>6. line \in Seq(Packet) /\ OneEnd(line)
      BY <1>6, <3>2, <3>4, <3>5, EndsOfDeployed
    <3> QED
      BY <3>3, <3>6, ModeAssumption DEF EndInLine
  <2> QED
    BY <2>1, <2>2
<1>8. total \in 0..MaxCycle /\ previous \in Modes
  BY <1>2, ModeAssumption
<1>9. modeList \in [Modes -> Entries] /\ table \in [Modes -> [Modes -> Entries]]
  BY <1>2, ModeAssumption
<1>10. Typed
  BY <1>1, <1>2, <1>4, <1>7, <1>8, <1>9 DEF Typed
<1> QED
  BY <1>5, <1>7, <1>10 DEF Inv, EndsKept

-----------------------------------------------------------------------------
\* The inductive invariant: the types, and what is known of the ends in the line.
THEOREM Invariance == Spec => []Inv
  BY Initially, NextStep, PTL DEF Spec

\* The types of the mode manager, its tables and the line.
THEOREM Types == Spec => []TypeOK
<1>1. Typed => TypeOK
  <2> SUFFICES ASSUME Typed PROVE TypeOK
    OBVIOUS
  <2>1. \A b \in Blocks : blocks[b].active \in BOOLEAN
                          /\ blocks[b].cmds \in Seq([ti : Times, cmd : CommandSpace])
    BY DEF Typed, BlockState, Packet
  <2>2. line \in Seq([ti : Times, cmd : CommandSpace])
    BY DEF Typed, Packet
  <2> QED
    BY <2>1, <2>2 DEF Typed, TypeOK
<1> QED
  BY <1>1, Invariance, PTL DEF Inv

\* mode_manager.c:237, 251: a transition in progress has exactly one end in the line, an idle
\* mode manager none, unless the ground removed the end or meddled with ends.
THEOREM TransitionsHaveTheirEnds == Spec => []TransitionHasItsEnd
<1>1. Inv => TransitionHasItsEnd
  <2> SUFFICES ASSUME Inv, ~stray
               PROVE  LET ends == {i \in DOMAIN line : line[i].cmd.op = "FINISH"}
                      IN  /\ stat = "FINISHED" => ends = {}
                          /\ stat = "IN_PROGRESS" /\ ~lost => \E i \in DOMAIN line : ends = {i}
    BY DEF TransitionHasItsEnd
  <2>1. /\ OneEnd(line)
        /\ stat = "FINISHED" => ~HasEnd(line)
        /\ stat = "IN_PROGRESS" => (lost <=> ~HasEnd(line))
    BY DEF Inv, EndsKept, EndInLine
  <2> DEFINE ends == {i \in DOMAIN line : line[i].cmd.op = "FINISH"}
  <2>2. stat = "FINISHED" => ends = {}
    BY <2>1 DEF HasEnd
  <2>3. ASSUME stat = "IN_PROGRESS", ~lost PROVE \E i \in DOMAIN line : ends = {i}
    <3>1. PICK i \in DOMAIN line : line[i].cmd.op = "FINISH"
      BY <2>1, <2>3 DEF HasEnd
    <3>2. \A j \in DOMAIN line : line[j].cmd.op = "FINISH" => j = i
      BY <2>1, <3>1 DEF OneEnd, IsEnd
    <3>3. ends = {i}
      BY <3>1, <3>2
    <3> QED
      BY <3>3
  <2> QED
    BY <2>2, <2>3
<1> QED
  BY <1>1, Invariance, PTL

\* mode_manager.c:217: the task list is that of the mode that was left until the transition
\* ends, and then that of the mode that is reached: no mode is passed over.
THEOREM TaskListsFollowModes == Spec => []TaskListFollowsMode
<1>1. Init => TaskListFollowsMode
  BY DEF Init, TaskListFollowsMode
<1>2. TaskListFollowsMode /\ [Next]_vars => TaskListFollowsMode'
  <2> SUFFICES ASSUME TaskListFollowsMode, [Next]_vars PROVE TaskListFollowsMode'
    OBVIOUS
  <2>1. ASSUME NEW cmd, NEW own, Execute(cmd, own) PROVE TaskListFollowsMode'
    <3>1. CASE Start(cmd, own)
      <4>1. stat = "FINISHED" /\ stat' = "IN_PROGRESS" /\ previous' = current /\ taskMode' = taskMode
        BY <3>1 DEF Start, MayStart
      <4> QED
        BY <4>1 DEF TaskListFollowsMode
    <3>2. CASE Finish(cmd, own)
      <4>1. stat' = "FINISHED" /\ current' = current /\ taskMode' \in {current, NotDefined}
        BY <3>2 DEF Finish
      <4> QED
        BY <4>1 DEF TaskListFollowsMode
    <3>3. CASE SetTaskList(cmd, own)
      <4>1. UNCHANGED <<stat, previous, current>> /\ taskMode' \in {taskMode, NotDefined}
        BY <3>3 DEF SetTaskList
      <4> QED
        BY <4>1 DEF TaskListFollowsMode
    <3>4. CASE \/ RefuseStart(cmd, own) \/ RefuseFinish(cmd, own) \/ Nop(cmd, own)
               \/ Deploy(cmd, own) \/ ClearAll(cmd, own) \/ ClearAt(cmd, own)
               \/ SetModeList(cmd, own) \/ SetTransitionTable(cmd, own) \/ SetBlock(cmd, own)
      <4>1. UNCHANGED modeVars
        BY <3>4 DEF RefuseStart, RefuseFinish, Nop, Deploy, ClearAll, ClearAt, SetModeList,
                    SetTransitionTable, SetBlock
      <4> QED
        BY <4>1 DEF modeVars, TaskListFollowsMode
    <3> QED
      BY <2>1, <3>1, <3>2, <3>3, <3>4 DEF Execute
  <2>2. CASE Tick \/ UNCHANGED vars
    BY <2>2 DEF Tick, vars, modeVars, TaskListFollowsMode
  <2> QED
    BY <2>1, <2>2 DEF Next, RunLine, RunGround
<1> QED
  BY <1>1, <1>2, PTL DEF Spec
=============================================================================
