-------------------------- MODULE PacketRunnerProofs --------------------------
(***************************************************************************)
(* Proofs about PacketRunner, for any packets, return codes and number of  *)
(* changes of the packet file; that the runner with its make targets is a  *)
(* runner, so that what is proved of the runner by itself holds of the     *)
(* composed system, whatever the targets do; and about MakeDispatch in     *)
(* PacketMake, for any descriptors, handlers and environments.             *)
(***************************************************************************)
EXTENDS PacketMake, WellFoundedInduction, TLAPS

\* The packet that was read is settled from here on.
Started == pc \in {"canary", "verify", "next", "child"} \/ log # <<>>

\* What every step keeps.
RunnerInv ==
  /\ RunnerTypeOK
  /\ changes \in Nat
  /\ Started => packet \in Packets /\ AdmittedPacket(packet) /\ isolated
  /\ pc \in {"read", "canary"} => log = <<>>
  /\ pc = "read" => packet = Unreadable
  /\ log # <<>> => Len(log) <= Len(Program(packet))
  /\ \A i \in 1..Len(log) : log[i].command = Program(packet)[i]
  /\ \A i \in 1..Len(log) : i < Len(log) => log[i].status = 0
  /\ pc \in {"next", "child"} => ~Failed /\ Len(log) < Len(Program(packet)) /\ matched
  /\ pc = "verify" /\ path = packet => matched
  /\ pc # "done" => exit = NotEnded
  /\ Started /\ path # packet => changes > 0
  /\ exit = Returned(0) => Len(log) = Len(Program(packet)) /\ ~Failed /\ matched
  /\ exit.kind = "RETURNED" /\ exit.code # 0 =>
       log = <<>> \/ (log[Len(log)].status = exit.code /\ matched)
  /\ exit = Refused /\ log # <<>> => changes > 0

LEMMA ProgramType ==
  ASSUME NEW p \in Packets
  PROVE  Program(p) \in Seq(Seq(STRING))
  BY PacketsAssumption DEF Program

Entries == [command: Seq(STRING), status: Statuses]

LEMMA LastEntry ==
  ASSUME NEW s \in Seq(Entries), s # <<>>
  PROVE  Len(s) \in DOMAIN s /\ s[Len(s)] \in Entries
<1>1. \A S : \A t \in Seq(S) : t # <<>> => Len(t) \in DOMAIN t /\ t[Len(t)] \in S
  OBVIOUS
<1>2. QED
  BY <1>1

LEMMA RunnerInitInv == RunnerInit => RunnerInv
<1> SUFFICES ASSUME RunnerInit PROVE RunnerInv
  OBVIOUS
<1>1. \A S : <<>> \in Seq(S)
  OBVIOUS
<1>2. RunnerTypeOK
  BY <1>1 DEF RunnerInit, RunnerTypeOK, Contents
<1>3. Len(log) = 0
  BY DEF RunnerInit
<1>4. QED
  BY <1>2, <1>3 DEF RunnerInit, RunnerInv, Started, NotEnded, Returned, Refused

LEMMA ChangeInv ==
  ASSUME RunnerInv, NEW content \in Contents, Change(content)
  PROVE  RunnerInv'
  BY DEF RunnerInv, RunnerTypeOK, Change, Started, Failed

LEMMA ReadInv ==
  ASSUME RunnerInv, ReadPacket
  PROVE  RunnerInv'
  BY PacketsAssumption
  DEF RunnerInv, RunnerTypeOK, ReadPacket, PacketText, Stop, Started, Failed, Contents, NotEnded,
      Returned, Refused, Raised

LEMMA LoseInv ==
  ASSUME RunnerInv, LoseCanary
  PROVE  RunnerInv'
  BY DEF RunnerInv, RunnerTypeOK, LoseCanary, Stop, Started, Failed, NotEnded, Returned, Refused,
         Raised

LEMMA CanaryInv ==
  ASSUME RunnerInv, NEW status \in Statuses, EndCanary(status)
  PROVE  RunnerInv'
<1>1. log = <<>> /\ packet \in Packets /\ log' = log
  BY DEF RunnerInv, EndCanary, Started
<1>2. CASE status # 0
  <2>1. /\ pc' = "done" /\ exit' = Returned(status) /\ changes' = changes
        /\ path' = path /\ packet' = packet /\ isolated' = isolated
    BY <1>2 DEF EndCanary, Stop
  <2>2. matched' \in BOOLEAN
    BY DEF EndCanary
  <2>3. RunnerTypeOK'
    BY <1>1, <2>1, <2>2 DEF RunnerInv, RunnerTypeOK
  <2>4. QED
    BY <1>1, <1>2, <2>1, <2>3
    DEF RunnerInv, EndCanary, Started, Failed, NotEnded, Returned, Refused
<1>3. CASE status = 0
  <2>1. /\ pc' = "verify" /\ exit' = exit /\ exit = NotEnded /\ changes' = changes
        /\ path' = path /\ packet' = packet /\ isolated' = isolated
    BY <1>3 DEF EndCanary, RunnerInv
  <2>2. matched' \in BOOLEAN /\ (path = packet => matched')
    BY DEF EndCanary
  <2>3. RunnerTypeOK'
    BY <1>1, <2>1, <2>2 DEF RunnerInv, RunnerTypeOK
  <2>4. packet \in Packets /\ AdmittedPacket(packet) /\ isolated
        /\ (path # packet => changes > 0)
    BY DEF RunnerInv, EndCanary, Started
  <2>5. \A i \in 1..Len(log') : FALSE
    BY <1>1
  <2>6. QED
    BY <1>1, <2>1, <2>2, <2>3, <2>4, <2>5 DEF RunnerInv, NotEnded, Returned, Refused
<1>4. QED
  BY <1>2, <1>3

LEMMA VerifyInv ==
  ASSUME RunnerInv, Verify
  PROVE  RunnerInv'
<1>1. Program(packet) \in Seq(Seq(STRING))
  BY ProgramType DEF RunnerInv, Verify, Started
<1>2. log # <<>> => log[Len(log)].status \in Statuses
  BY LastEntry DEF RunnerInv, RunnerTypeOK, Entries
<1>3. QED
  BY <1>1, <1>2, StatusesAssumption
  DEF RunnerInv, RunnerTypeOK, Verify, SamePacket, Stop, Started, Failed, NotEnded, Returned,
      Refused, Raised

LEMMA StartInv ==
  ASSUME RunnerInv, StartChild
  PROVE  RunnerInv'
  BY DEF RunnerInv, RunnerTypeOK, StartChild, Stop, Started, Failed, NotEnded, Returned, Refused,
         Raised

LEMMA EndChildInv ==
  ASSUME RunnerInv, NEW status \in Statuses, EndChild(status)
  PROVE  RunnerInv'
<1>1. Program(packet) \in Seq(Seq(STRING)) /\ packet \in Packets
  BY ProgramType DEF RunnerInv, EndChild, Started
<1>2. Len(log) + 1 <= Len(Program(packet)) /\ Len(log) \in Nat
  BY <1>1 DEF RunnerInv, RunnerTypeOK, EndChild
<1>3. CommandAt(Len(log) + 1) \in Seq(STRING)
  BY <1>1, <1>2 DEF CommandAt
<1>4. /\ Len(log') = Len(log) + 1
      /\ log'[Len(log) + 1] = [command |-> CommandAt(Len(log) + 1), status |-> status]
      /\ \A i \in 1..Len(log) : log'[i] = log[i]
      /\ log' \in Seq([command: Seq(STRING), status: Statuses])
      /\ log' # <<>>
  <2> DEFINE entry == [command |-> CommandAt(Len(log) + 1), status |-> status]
             Ended == [command: Seq(STRING), status: Statuses]
  <2>1. entry \in Ended
    BY <1>3
  <2>2. log \in Seq(Ended) /\ log' = Append(log, entry)
    BY DEF EndChild, RunnerInv, RunnerTypeOK
  <2> HIDE DEF entry, Ended
  <2>3. /\ Len(log') = Len(log) + 1 /\ log'[Len(log) + 1] = entry
        /\ \A i \in 1..Len(log) : log'[i] = log[i]
        /\ log' \in Seq(Ended)
    BY <2>1, <2>2
  <2>4. log' # <<>>
    BY <2>3, <1>2
  <2> QED
    BY <2>3, <2>4 DEF entry, Ended
<1>5. \A i \in 1..Len(log) : log[i].status = 0
  <2> SUFFICES ASSUME NEW i \in 1..Len(log) PROVE log[i].status = 0
    OBVIOUS
  <2>1. log # <<>>
    BY <1>2
  <2>2. log[Len(log)].status = 0
    BY <2>1 DEF RunnerInv, EndChild, Failed
  <2>3. i = Len(log) \/ i < Len(log)
    BY <1>2
  <2>4. QED
    BY <2>2, <2>3 DEF RunnerInv
<1>6. \A i \in 1..Len(log') :
         log'[i].command = Program(packet)[i] /\ (i < Len(log') => log'[i].status = 0)
  <2> SUFFICES ASSUME NEW i \in 1..Len(log')
      PROVE  log'[i].command = Program(packet)[i] /\ (i < Len(log') => log'[i].status = 0)
    OBVIOUS
  <2>1. CASE i \in 1..Len(log)
    BY <1>2, <1>4, <1>5, <2>1 DEF RunnerInv
  <2>2. CASE i = Len(log) + 1
    BY <1>2, <1>4, <2>2 DEF CommandAt
  <2>3. QED
    BY <1>2, <1>4, <2>1, <2>2
<1>7. /\ packet' = packet /\ path' = path /\ changes' = changes /\ isolated' = isolated
      /\ exit' = exit /\ pc' = "verify" /\ matched' = (path = packet) /\ exit = NotEnded
  BY DEF EndChild, RunnerInv
<1>8. RunnerTypeOK'
  BY <1>4, <1>7 DEF RunnerInv, RunnerTypeOK
<1>9. packet \in Packets /\ AdmittedPacket(packet) /\ isolated /\ changes \in Nat
      /\ (path # packet => changes > 0)
  BY DEF RunnerInv, EndChild, Started
<1>10. Len(log') <= Len(Program(packet))
  BY <1>2, <1>4
<1>11. QED
  BY <1>4, <1>6, <1>7, <1>8, <1>9, <1>10 DEF RunnerInv, Started, NotEnded, Returned, Refused

LEMMA RunnerStepInv == RunnerInv /\ [RunnerNext]_runnerVars => RunnerInv'
<1> SUFFICES ASSUME RunnerInv, [RunnerNext]_runnerVars PROVE RunnerInv'
  OBVIOUS
<1>1. CASE \E content \in Contents : Change(content)
  BY <1>1, ChangeInv
<1>2. CASE ReadPacket \/ LoseCanary
  BY <1>2, ReadInv, LoseInv
<1>3. CASE \E status \in Statuses : EndCanary(status) \/ EndChild(status)
  BY <1>3, CanaryInv, EndChildInv
<1>4. CASE Verify
  BY <1>4, VerifyInv
<1>5. CASE StartChild
  BY <1>5, StartInv
<1>6. CASE UNCHANGED runnerVars
  BY <1>6 DEF runnerVars, RunnerInv, RunnerTypeOK, Started, Failed
<1>7. QED
  BY <1>1, <1>2, <1>3, <1>4, <1>5, <1>6 DEF RunnerNext

LEMMA RunnerInvHolds == RunnerSpec => []RunnerInv
  BY RunnerInitInv, RunnerStepInv, PTL DEF RunnerSpec

\* Type correctness of the packet runner.
THEOREM RunnerTypeCorrect == RunnerSpec => []RunnerTypeOK
<1>1. RunnerInv => RunnerTypeOK
  BY DEF RunnerInv
<1>2. QED
  BY <1>1, RunnerInvHolds, PTL

\* The commands that run are those of the packet first read, in order, for
\* packets of any length and any changes of the file (main, run_commands).
THEOREM RunnerRunsTheReadPacket == RunnerSpec => []RunsTheReadPacket
<1>1. RunnerInv => RunsTheReadPacket
  BY DEF RunnerInv, RunsTheReadPacket, Started
<1>2. QED
  BY <1>1, RunnerInvHolds, PTL

\* A command starts, and success is reported, only after the packet file was
\* seen to hold the packet again (verify_packet_digest).
THEOREM RunnerAuthorityRechecked == RunnerSpec => []AuthorityRechecked
<1>1. RunnerInv => AuthorityRechecked
  BY DEF RunnerInv, AuthorityRechecked
<1>2. QED
  BY <1>1, RunnerInvHolds, PTL

\* What main returns tells what happened to the commands and the packet.
THEOREM RunnerExitExplained == RunnerSpec => []ExitExplained
<1>1. ASSUME RunnerInv, exit = Returned(0), NEW i \in DOMAIN log
      PROVE  log[i].status = 0
  <2>1. log \in Seq(Entries) /\ log # <<>> /\ i \in 1..Len(log)
    BY <1>1 DEF RunnerInv, RunnerTypeOK, Entries
  <2>2. log[Len(log)].status = 0
    BY <1>1, <2>1 DEF RunnerInv, Failed
  <2>3. i = Len(log) \/ i < Len(log)
    BY <2>1, LastEntry
  <2>4. QED
    BY <1>1, <2>1, <2>2, <2>3 DEF RunnerInv
<1>2. RunnerInv => ExitExplained
  BY <1>1 DEF RunnerInv, ExitExplained
<1>3. QED
  BY <1>2, RunnerInvHolds, PTL

-----------------------------------------------------------------------------
(* The composition with the make targets.                                 *)

(* Every step of the composition is a step of the runner or leaves it      *)
(* alone: starting a command starts a child, and what happens inside the   *)
(* child changes nothing of the runner's.                                  *)
LEMMA PacketStepIsRunnerStep ==
  [PacketNext]_packetVars => [RunnerNext]_runnerVars
<1> SUFFICES ASSUME [PacketNext]_packetVars PROVE [RunnerNext]_runnerVars
  OBVIOUS
<1>1. CASE RunnerStep
  BY <1>1 DEF RunnerStep, RunnerNext
<1>2. CASE StartCommand
  BY <1>2 DEF StartCommand, RunnerNext
<1>3. CASE TargetStep
  BY <1>3 DEF TargetStep
<1>4. CASE \E status \in Statuses : EndCommand(status)
  BY <1>4 DEF EndCommand, RunnerNext
<1>5. CASE UNCHANGED packetVars
  BY <1>5 DEF packetVars
<1> QED
  BY <1>1, <1>2, <1>3, <1>4, <1>5 DEF PacketNext

(* The composition implements the runner.                                  *)
THEOREM PacketImplementsRunner == PacketSpec => RunnerSpec
<1>1. PacketInit => RunnerInit
  BY DEF PacketInit
<1> QED
  BY <1>1, PacketStepIsRunnerStep, PTL DEF PacketSpec, RunnerSpec

(* So the commands that run, with all that their targets do, are those of  *)
(* the packet first read, none is started after a change that lasts, and   *)
(* the exit code tells what happened (main of ci/run_packet_argv.py).      *)
THEOREM PacketRunsAsRead ==
  PacketSpec => [](RunsTheReadPacket /\ AuthorityRechecked /\ ExitExplained)
BY PacketImplementsRunner, RunnerRunsTheReadPacket, RunnerAuthorityRechecked,
   RunnerExitExplained, PTL

-----------------------------------------------------------------------------
(* The make targets.                                                       *)

Parts == [kind: {"literal", "variable"}, text: STRING]

(* One round of the loops of dispatch.                                     *)
Entered == [turn: Turns, place: Nat, status: HandlerStatuses, argv: Seq(STRING)]

\* What is given is made of strings.
GivenTyped ==
  /\ request.arguments \in Seq([name: STRING, value: STRING])
  /\ \A name \in DOMAIN inherited : inherited[name] \in STRING

\* The rules that were selected are those that accept what is given.
Chosen ==
  /\ ValidArguments(request.arguments, inherited)
  /\ read \in Directories /\ Loads(read)
  /\ DOMAIN selected = {t \in Turns : Accepting(t) # {}}
  /\ \A t \in DOMAIN selected : Accepting(t) = {selected[t]}

\* The place of the command that is to run next.
Here == [turn |-> turn, place |-> ran + 1]

LogInv ==
  /\ \A i \in DOMAIN makeLog :
       /\ makeLog[i].turn \in DOMAIN selected
       /\ makeLog[i].place \in DOMAIN selected[makeLog[i].turn].commands
       /\ makeLog[i].argv =
            Render(selected[makeLog[i].turn].commands[makeLog[i].place], GivenValues)
       /\ \A due \in Due : Earlier(due, makeLog[i]) => Ran(due)
  /\ \A i, j \in DOMAIN makeLog :
       i < j => makeLog[i].status = 0 /\ Earlier(makeLog[i], makeLog[j])

RunInv ==
  /\ turn \in DOMAIN selected
  /\ ran \in Nat /\ ran < Len(selected[turn].commands)
  /\ makeExit = -1
  /\ \A i \in DOMAIN makeLog : makeLog[i].status = 0 /\ Earlier(makeLog[i], Here)
  /\ \A due \in Due : Earlier(due, Here) => Ran(due)

DispatchInv ==
  /\ directory \in Directories
  /\ GivenTyped
  /\ makeLog \in Seq(Entered)
  /\ makePc \in {"idle", "main", "run", "done"}
  /\ makePc \in {"idle", "main"} => makeLog = <<>> /\ makeExit = -1
  /\ makePc = "run" \/ makeLog # <<>> => Chosen
  /\ LogInv
  /\ makePc = "run" => RunInv
  /\ makeExit = 0 => \A due \in Due : Ran(due)
  /\ makePc = "done" /\ makeLog # <<>> /\ Last(makeLog).status # 0 =>
       makeExit = Last(makeLog).status

(* A set of numbers that is not empty has a least element.                 *)
LEMMA LeastTurn ==
  ASSUME NEW T \in SUBSET Nat, T # {}
  PROVE  Min(T) \in T /\ \A y \in T : Min(T) <= y
<1> DEFINE R == {ss \in Nat \X Nat : ss[1] < ss[2]}
<1>1. IsWellFoundedOn(R, Nat)
  BY NatLessThanWellFounded DEF OpToRel
<1>2. \E x \in T : \A y \in T : ~ (<<y, x>> \in R)
  <2> HIDE DEF R
  <2> QED BY <1>1, WFMin
<1>3. \A x, y \in Nat : ~ (<<y, x>> \in R) => x <= y
  BY DEF R
<1> HIDE DEF R
<1>4. \E x \in T : \A y \in T : x <= y
  BY <1>2, <1>3
<1> QED BY <1>4 DEF Min

LEMMA TurnsType == Turns \subseteq Nat
  BY PacketIdsAssumption DEF Turns

(* What load_rules lets pass of the commands of a rule.                    *)
LEMMA RuleCommands ==
  ASSUME NEW entries \in Directories, Loads(entries), NEW p, NEW rule \in RulesOf(entries, p)
  PROVE  /\ rule.commands \in Seq(Seq(Parts)) /\ rule.commands # <<>>
         /\ \A i \in DOMAIN rule.commands : \A j \in DOMAIN rule.commands[i] :
              ValidPart(rule.commands[i][j], rule.accepted)
<1>0. PICK entry \in entries :
        rule \in {TargetRule(p, entry.body.targets[i]) : i \in DOMAIN entry.body.targets}
  BY DEF RulesOf
<1>1. PICK i \in DOMAIN entry.body.targets : rule = TargetRule(p, entry.body.targets[i])
  BY <1>0
<1>2. /\ entry.body # Malformed
      /\ ValidCommands(entry.body.targets[i].commands, entry.body.targets[i].accepted)
  BY <1>1 DEF Loads, ValidDescriptor
<1>3. entry.body.targets[i].commands \in Seq(Seq(Parts))
  BY <1>1, <1>2, DirectoriesAssumption DEF Parts
<1>4. /\ rule.commands = entry.body.targets[i].commands
      /\ DOMAIN rule.accepted = DOMAIN entry.body.targets[i].accepted
  BY <1>1 DEF TargetRule
<1> QED BY <1>2, <1>3, <1>4 DEF ValidCommands, ValidPart

LEMMA GivenStrings ==
  ASSUME GivenTyped, NEW name \in DOMAIN GivenValues
  PROVE  GivenValues[name] \in STRING
<1>0. \A i \in DOMAIN request.arguments :
        request.arguments[i] \in [name: STRING, value: STRING]
  <2>1. \A S : \A s \in Seq(S) : \A i \in DOMAIN s : s[i] \in S
    OBVIOUS
  <2> QED BY <2>1 DEF GivenTyped
<1>1. \A a \in ToSet(request.arguments) : a.value \in STRING
  BY <1>0 DEF ToSet
<1>2. CASE name \in DOMAIN inherited
  BY <1>2 DEF GivenTyped, GivenValues, Supplied
<1>3. CASE name \notin DOMAIN inherited
  <2>1. \E a \in ToSet(request.arguments) : a.name = name
    BY <1>3 DEF GivenValues, Supplied
  <2>2. GivenValues[name] = (CHOOSE a \in ToSet(request.arguments) : a.name = name).value
    BY <1>3 DEF GivenValues, Supplied
  <2> QED BY <1>1, <2>1, <2>2
<1> QED BY <1>2, <1>3

(* What the selected rules are like.                                       *)
LEMMA SelectedRule ==
  ASSUME Chosen, NEW t \in DOMAIN selected
  PROVE  /\ t \in Turns /\ selected[t] \in Accepting(t) /\ Accepting(t) = {selected[t]}
         /\ selected[t].commands \in Seq(Seq(Parts)) /\ selected[t].commands # <<>>
         /\ \A i \in DOMAIN selected[t].commands : \A j \in DOMAIN selected[t].commands[i] :
              ValidPart(selected[t].commands[i][j], selected[t].accepted)
         /\ DOMAIN selected[t].accepted = DOMAIN GivenValues
<1>1. t \in Turns /\ selected[t] \in Accepting(t) /\ Accepting(t) = {selected[t]}
  BY DEF Chosen
<1>2. /\ selected[t] \in RulesOf(read, PacketIds[t])
      /\ DOMAIN selected[t].accepted = DOMAIN GivenValues
  BY <1>1 DEF Accepting
<1>3. read \in Directories /\ Loads(read)
  BY DEF Chosen
<1> QED BY <1>1, <1>2, <1>3, RuleCommands

(* What is due is a command of a selected rule.                            *)
LEMMA DueSelected ==
  ASSUME Chosen, NEW due \in Due
  PROVE  /\ due.turn \in DOMAIN selected
         /\ due.place \in DOMAIN selected[due.turn].commands
<1>1. PICK t \in Turns : due \in {[turn |-> t, place |-> k] :
                            k \in UNION {DOMAIN rule.commands : rule \in Accepting(t)}}
  BY DEF Due
<1>2. PICK rule \in Accepting(t) : due.turn = t /\ due.place \in DOMAIN rule.commands
  BY <1>1
<1>3. t \in DOMAIN selected
  BY <1>2 DEF Chosen
<1> QED BY <1>2, <1>3 DEF Chosen

(* What is rendered is a command line.                                     *)
LEMMA Rendered ==
  ASSUME Chosen, GivenTyped, NEW t \in DOMAIN selected,
         NEW k \in DOMAIN selected[t].commands
  PROVE  Render(selected[t].commands[k], GivenValues) \in Seq(STRING)
<1> DEFINE template == selected[t].commands[k]
<1>1. /\ template \in Seq(Parts)
      /\ \A j \in DOMAIN template : ValidPart(template[j], selected[t].accepted)
  BY SelectedRule
<1>2. DOMAIN selected[t].accepted = DOMAIN GivenValues
  BY SelectedRule
<1>3. \A j \in DOMAIN template : template[j] \in Parts
  BY <1>1
<1> HIDE DEF template
<1>4. \A j \in DOMAIN template :
        (IF template[j].kind = "variable" THEN GivenValues[template[j].text]
         ELSE template[j].text) \in STRING
  BY <1>1, <1>2, <1>3, GivenStrings DEF Parts, ValidPart
<1>5. DOMAIN template = 1..Len(template) /\ Len(template) \in Nat
  BY <1>1
<1>6. Render(template, GivenValues) \in [1..Len(template) -> STRING]
  BY <1>4, <1>5 DEF Render
<1> QED BY <1>5, <1>6 DEF template

LEMMA MakeInitInv == MakeInit /\ GivenTyped => DispatchInv
<1> SUFFICES ASSUME MakeInit, GivenTyped PROVE DispatchInv
  OBVIOUS
<1>1. makeLog = <<>> /\ makePc = "idle" /\ makeExit = -1 /\ directory \in Directories
  BY DEF MakeInit
<1>2. makeLog \in Seq(Entered) /\ DOMAIN makeLog = {}
  BY <1>1
<1> QED BY <1>1, <1>2 DEF DispatchInv, LogInv

LEMMA CalledInv ==
  ASSUME DispatchInv, NEW command, NEW environment, Called(command, environment),
         command.arguments \in Seq([name: STRING, value: STRING]),
         \A name \in DOMAIN environment : environment[name] \in STRING
  PROVE  DispatchInv'
<1>1. /\ makeLog' = <<>> /\ makePc' = "main" /\ makeExit' = -1
      /\ directory' = directory /\ request' = command /\ inherited' = environment
  BY DEF Called
<1>2. makeLog' \in Seq(Entered') /\ DOMAIN makeLog' = {}
  BY <1>1
<1>3. GivenTyped'
  BY <1>1 DEF GivenTyped
<1> QED BY <1>1, <1>2, <1>3 DEF DispatchInv, LogInv

(* The invariant reads the directory for its type only.                    *)
LEMMA RewriteInv ==
  ASSUME DispatchInv, directory' \in Directories,
         UNCHANGED <<request, inherited, makePc, selected, turn, ran, makeLog, makeExit, read>>
  PROVE  DispatchInv'
<1>1. GivenValues' = GivenValues /\ GivenTyped'
  BY DEF GivenValues, GivenTyped, DispatchInv
<1>2. (\A t : Accepting(t)' = Accepting(t)) /\ Turns' = Turns /\ Due' = Due
  BY <1>1 DEF Accepting, Due
<1>3. (\A due : Ran(due)' = Ran(due)) /\ Here' = Here
  BY DEF Ran, Here
<1>4. Chosen => Chosen'
  BY <1>1, <1>2 DEF Chosen
<1>5. LogInv' /\ (RunInv => RunInv')
  BY <1>1, <1>2, <1>3 DEF LogInv, RunInv, DispatchInv
<1> QED BY <1>1, <1>2, <1>3, <1>4, <1>5 DEF DispatchInv, Entered

LEMMA MissingInv ==
  ASSUME DispatchInv, CommandMissing
  PROVE  DispatchInv'
<1>1. /\ makePc = "run" /\ makePc' = "done" /\ makeExit' = 1
      /\ UNCHANGED <<directory, request, inherited, selected, turn, ran, makeLog, read>>
  BY DEF CommandMissing, MakeStop
<1>2. makeLog # <<>> => Last(makeLog).status = 0
  <2>1. \A s \in Seq(Entered) : s # <<>> => Len(s) \in DOMAIN s
    OBVIOUS
  <2> QED BY <2>1, <1>1 DEF DispatchInv, RunInv, Last
<1>3. GivenValues' = GivenValues /\ (Chosen => Chosen') /\ (LogInv => LogInv')
  BY <1>1 DEF Chosen, LogInv, GivenValues, Accepting, Due, Ran
<1> QED BY <1>1, <1>2, <1>3 DEF DispatchInv, GivenTyped, Entered, Last

LEMMA SelectInv ==
  ASSUME DispatchInv, Select
  PROVE  DispatchInv'
<1> DEFINE rules(t) == Applicable(directory, PacketIds[t], request.target, GivenValues)
           owners == {t \in Turns : rules(t) # {}}
<1>1. /\ makePc = "main" /\ makeLog = <<>> /\ makeExit = -1 /\ makeLog' = <<>>
      /\ UNCHANGED <<directory, request, inherited>>
      /\ DOMAIN makeLog' = {}
  BY DEF Select, DispatchInv
<1>2. GivenTyped' /\ directory' \in Directories /\ makeLog' \in Seq(Entered')
  BY <1>1 DEF DispatchInv, GivenTyped, Entered
<1>3. LogInv'
  BY <1>1 DEF LogInv
<1>4. CASE Refuse
  <2>1. makePc' = "done" /\ makeExit' = 2
    BY <1>4 DEF Refuse, MakeStop
  <2> QED BY <1>1, <1>2, <1>3, <2>1 DEF DispatchInv
<1>5. CASE ~Refuse
  <2>1. /\ ValidArguments(request.arguments, inherited) /\ Loads(directory)
        /\ \A t \in Turns : ~Ambiguous(rules(t))
        /\ owners # {}
        /\ selected' = [t \in owners |-> CHOOSE rule \in rules(t) : TRUE]
        /\ turn' = Min(owners) /\ ran' = 0 /\ read' = directory /\ makePc' = "run"
        /\ makeExit' = makeExit
    BY <1>5 DEF Select
  <2>2. \A t : Accepting(t)' = rules(t)
    BY <1>1, <2>1 DEF Accepting, Applicable, Matches, GivenValues
  <2> HIDE DEF rules
  <2>3. \A t \in owners : rules(t) = {selected'[t]}
    BY <2>1 DEF Ambiguous
  <2>4. Turns' = Turns
    BY DEF Turns
  <2>5. Chosen'
    BY <1>1, <1>2, <2>1, <2>2, <2>3, <2>4 DEF Chosen, DispatchInv
  <2>6. RunInv'
    <3>1. owners \subseteq Nat /\ owners = DOMAIN selected'
      BY <2>1, TurnsType
    <3>2. turn' \in DOMAIN selected' /\ \A t \in DOMAIN selected' : turn' <= t
      BY <2>1, <3>1, LeastTurn
    <3>3. Len(selected'[turn'].commands) > 0 /\ Len(selected'[turn'].commands) \in Nat
      <4>1. selected'[turn'] \in rules(turn')
        BY <2>3, <3>1, <3>2
      <4>2. selected'[turn'] \in RulesOf(directory, PacketIds[turn'])
        BY <4>1 DEF rules, Applicable
      <4>3. selected'[turn'].commands \in Seq(Seq(Parts)) /\ selected'[turn'].commands # <<>>
        BY <2>1, <4>2, RuleCommands DEF DispatchInv
      <4>4. \A S : \A s \in Seq(S) : s # <<>> => Len(s) > 0 /\ Len(s) \in Nat
        OBVIOUS
      <4> QED BY <4>3, <4>4
    <3>4. \A due \in Due' : ~Earlier(due, Here')
      <4> SUFFICES ASSUME NEW due \in Due' PROVE ~Earlier(due, Here')
        OBVIOUS
      <4>1. PICK t \in Turns : due \in {[turn |-> t, place |-> k] :
                k \in UNION {DOMAIN rule.commands : rule \in Accepting(t)'}}
        BY <2>4 DEF Due
      <4>2. PICK rule \in Accepting(t)' : due.turn = t /\ due.place \in DOMAIN rule.commands
        BY <4>1
      <4>3. t \in owners /\ rule \in RulesOf(directory, PacketIds[t])
        BY <2>2, <4>2 DEF rules, Applicable
      <4>4. rule.commands \in Seq(Seq(Parts))
        BY <2>1, <4>3, RuleCommands DEF DispatchInv
      <4>5. due.place \in Nat /\ due.place >= 1
        BY <4>2, <4>4
      <4>6. due.turn \in Nat /\ turn' \in Nat /\ turn' <= due.turn
        BY <3>1, <3>2, <4>2, <4>3
      <4> QED BY <2>1, <4>5, <4>6 DEF Earlier, Here
    <3> QED BY <1>1, <2>1, <3>2, <3>3, <3>4 DEF RunInv
  <2> QED BY <1>1, <1>2, <1>3, <2>1, <2>5, <2>6 DEF DispatchInv
<1> QED BY <1>4, <1>5

LEMMA DueNumbers ==
  ASSUME Chosen, NEW due \in Due
  PROVE  due.turn \in Nat /\ due.place \in Nat /\ due.place >= 1
<1>1. due.turn \in DOMAIN selected /\ due.place \in DOMAIN selected[due.turn].commands
  BY DueSelected
<1>2. due.turn \in Turns /\ selected[due.turn].commands \in Seq(Seq(Parts))
  BY <1>1, SelectedRule
<1>3. \A S : \A s \in Seq(S) : \A k \in DOMAIN s : k \in Nat /\ k >= 1
  OBVIOUS
<1>4. due.place \in Nat /\ due.place >= 1
  BY <1>1, <1>2, <1>3
<1> QED BY <1>2, <1>4, TurnsType

LEMMA RunCommandInv ==
  ASSUME DispatchInv, NEW status \in HandlerStatuses, RunCommand(status)
  PROVE  DispatchInv'
<1> DEFINE argv == Render(selected[turn].commands[ran + 1], GivenValues)
           e == [turn |-> turn, place |-> ran + 1, status |-> status, argv |-> argv]
           n == Len(makeLog)
<1>1. /\ makePc = "run" /\ Chosen /\ RunInv /\ LogInv /\ GivenTyped
      /\ makeLog' = Append(makeLog, e) /\ makeLog \in Seq(Entered)
      /\ UNCHANGED <<directory, request, inherited, selected, read>>
  BY DEF RunCommand, DispatchInv
<1>2. /\ turn \in DOMAIN selected /\ turn \in Turns /\ turn \in Nat
      /\ ran \in Nat /\ selected[turn].commands \in Seq(Seq(Parts))
  BY <1>1, SelectedRule, TurnsType DEF RunInv
<1>3. ran + 1 \in DOMAIN selected[turn].commands /\ ran < Len(selected[turn].commands)
  BY <1>1, <1>2 DEF RunInv
<1>4. argv \in Seq(STRING)
  BY <1>1, <1>2, <1>3, Rendered
<1> HIDE DEF argv
<1>5. e \in Entered
  BY <1>2, <1>4 DEF Entered
<1>6. /\ e.turn = turn /\ e.place = ran + 1 /\ e.status = status /\ e.argv = argv
  OBVIOUS
<1> HIDE DEF e
<1>7. /\ makeLog' \in Seq(Entered) /\ n \in Nat /\ Len(makeLog') = n + 1
      /\ DOMAIN makeLog = 1..n /\ DOMAIN makeLog' = 1..(n + 1)
      /\ \A i \in 1..n : makeLog'[i] = makeLog[i]
      /\ makeLog'[n + 1] = e
  BY <1>1, <1>5
<1> HIDE DEF n
<1>8. /\ GivenValues' = GivenValues /\ GivenTyped'
      /\ \A t : Accepting(t)' = Accepting(t)
  BY <1>1 DEF GivenValues, GivenTyped, Accepting
<1>9. Due' = Due /\ Turns' = Turns /\ Chosen'
  BY <1>1, <1>8 DEF Due, Chosen
<1>10. \A due : Ran(due) => Ran(due)'
  BY <1>7 DEF Ran
<1>11. \A due : due.turn = turn /\ due.place = ran + 1 => Ran(due)'
  BY <1>6, <1>7 DEF Ran
<1>12. \A due \in Due : Earlier(due, e) => Ran(due)
  BY <1>1, <1>6 DEF RunInv, Earlier, Here
<1>13. \A i \in 1..n : makeLog[i].status = 0 /\ Earlier(makeLog[i], e)
  BY <1>1, <1>6, <1>7 DEF RunInv, Earlier, Here
<1>14. LogInv'
  <2>1. \A i \in 1..(n + 1) :
          /\ makeLog'[i].turn \in DOMAIN selected'
          /\ makeLog'[i].place \in DOMAIN selected'[makeLog'[i].turn].commands
          /\ makeLog'[i].argv =
               Render(selected'[makeLog'[i].turn].commands[makeLog'[i].place], GivenValues')
          /\ \A due \in Due' : Earlier(due, makeLog'[i]) => Ran(due)'
    <3> SUFFICES ASSUME NEW i \in 1..(n + 1)
        PROVE  /\ makeLog'[i].turn \in DOMAIN selected
               /\ makeLog'[i].place \in DOMAIN selected[makeLog'[i].turn].commands
               /\ makeLog'[i].argv =
                    Render(selected[makeLog'[i].turn].commands[makeLog'[i].place], GivenValues)
               /\ \A due \in Due : Earlier(due, makeLog'[i]) => Ran(due)'
      BY <1>1, <1>8, <1>9
    <3>1. CASE i \in 1..n
      BY <1>1, <1>7, <1>10, <3>1 DEF LogInv
    <3>2. CASE i = n + 1
      BY <1>2, <1>3, <1>6, <1>7, <1>10, <1>12, <3>2 DEF argv
    <3> QED BY <1>7, <3>1, <3>2
  <2>2. \A i, j \in 1..(n + 1) :
          i < j => makeLog'[i].status = 0 /\ Earlier(makeLog'[i], makeLog'[j])
    <3> SUFFICES ASSUME NEW i \in 1..(n + 1), NEW j \in 1..(n + 1), i < j
        PROVE  makeLog'[i].status = 0 /\ Earlier(makeLog'[i], makeLog'[j])
      OBVIOUS
    <3>1. i \in 1..n
      BY <1>7
    <3>2. CASE j \in 1..n
      BY <1>1, <1>7, <3>1, <3>2 DEF LogInv
    <3>3. CASE j = n + 1
      BY <1>7, <1>13, <3>1, <3>3
    <3> QED BY <1>7, <3>2, <3>3
  <2> QED BY <1>7, <2>1, <2>2 DEF LogInv
<1>15. Last(makeLog').status = status /\ makeLog' # <<>>
  BY <1>6, <1>7 DEF Last
<1>16. directory' \in Directories /\ makeLog' \in Seq(Entered')
  BY <1>1, <1>7, <1>9 DEF DispatchInv, Entered
<1>17. CASE Fails(status)
  <2>1. makePc' = "done" /\ makeExit' = status /\ status # 0
    BY <1>17 DEF RunCommand, MakeStop, Fails
  <2> QED BY <1>8, <1>9, <1>14, <1>15, <1>16, <2>1 DEF DispatchInv
<1>18. CASE ~Fails(status)
  <2>1. status = 0 /\ Advance
    BY <1>18 DEF Fails, RunCommand
  <2>2. \A i \in 1..(n + 1) :
          makeLog'[i].status = 0
          /\ (Earlier(makeLog'[i], Here) \/ makeLog'[i] = e)
    <3> SUFFICES ASSUME NEW i \in 1..(n + 1)
        PROVE  makeLog'[i].status = 0 /\ (Earlier(makeLog'[i], Here) \/ makeLog'[i] = e)
      OBVIOUS
    <3>1. CASE i \in 1..n
      BY <1>1, <1>7, <3>1 DEF RunInv
    <3>2. CASE i = n + 1
      BY <1>6, <1>7, <2>1, <3>2
    <3> QED BY <1>7, <3>1, <3>2
  <2>3. \A due \in Due :
          (due.turn < turn \/ (due.turn = turn /\ due.place <= ran + 1)) => Ran(due)'
    <3> SUFFICES ASSUME NEW due \in Due,
                        due.turn < turn \/ (due.turn = turn /\ due.place <= ran + 1)
        PROVE  Ran(due)'
      OBVIOUS
    <3>1. due.place \in Nat
      BY <1>1, DueNumbers
    <3>2. CASE due.turn = turn /\ due.place = ran + 1
      BY <1>11, <3>2
    <3>3. CASE ~(due.turn = turn /\ due.place = ran + 1)
      <4>1. Earlier(due, Here)
        BY <1>2, <3>1, <3>3 DEF Earlier, Here
      <4> QED BY <1>1, <1>10, <4>1 DEF RunInv
    <3> QED BY <3>2, <3>3
  <2>4. \A i \in 1..(n + 1) :
          /\ makeLog'[i].turn \in Nat /\ makeLog'[i].place \in Nat
          /\ \/ makeLog'[i].turn < turn
             \/ makeLog'[i].turn = turn /\ makeLog'[i].place <= ran + 1
    <3>1. \A i \in 1..(n + 1) : makeLog'[i] \in Entered
      BY <1>7
    <3>2. \A i \in 1..(n + 1) : makeLog'[i].turn \in Nat /\ makeLog'[i].place \in Nat
      BY <3>1, TurnsType DEF Entered
    <3> QED BY <1>2, <1>6, <2>2, <3>2 DEF Earlier, Here
  <2>5. CASE /\ ran + 1 < Len(selected[turn].commands)
             /\ ran' = ran + 1
             /\ UNCHANGED <<turn, makePc, makeExit>>
    <3>1. \A due \in Due : Earlier(due, Here') => Ran(due)'
      <4> SUFFICES ASSUME NEW due \in Due, Earlier(due, Here') PROVE Ran(due)'
        OBVIOUS
      <4>1. due.place \in Nat /\ due.turn \in Nat
        BY <1>1, DueNumbers
      <4>2. due.turn < turn \/ (due.turn = turn /\ due.place <= ran + 1)
        BY <1>2, <2>5, <4>1 DEF Earlier, Here
      <4> QED BY <2>3, <4>2
    <3>2. \A i \in 1..(n + 1) : Earlier(makeLog'[i], Here')
      BY <1>2, <2>4, <2>5 DEF Earlier, Here
    <3>3. RunInv'
      <4>1. turn' \in DOMAIN selected' /\ makeExit' = -1
        BY <1>1, <2>5 DEF RunInv
      <4>2. ran' \in Nat /\ ran' < Len(selected'[turn'].commands)
        BY <1>1, <1>2, <2>5
      <4>3. \A i \in DOMAIN makeLog' : makeLog'[i].status = 0 /\ Earlier(makeLog'[i], Here')
        BY <1>7, <2>2, <3>2
      <4> QED BY <1>9, <3>1, <4>1, <4>2, <4>3 DEF RunInv
    <3>4. makePc' = "run" /\ makeExit' = -1
      BY <1>1, <2>5 DEF RunInv
    <3> QED BY <1>8, <1>9, <1>14, <1>15, <1>16, <2>1, <3>3, <3>4 DEF DispatchInv
  <2>6. CASE /\ ran + 1 = Len(selected[turn].commands) /\ Later # {}
             /\ turn' = Min(Later) /\ ran' = 0
             /\ UNCHANGED <<makePc, makeExit>>
    <3>1. Later \subseteq Nat
      BY <1>1, TurnsType DEF Later, Chosen
    <3>2. turn' \in Later /\ \A t \in Later : turn' <= t
      BY <2>6, <3>1, LeastTurn
    <3>3. turn' \in DOMAIN selected /\ turn' > turn /\ turn' \in Nat
      BY <3>1, <3>2 DEF Later
    <3>4. \A due \in Due : Earlier(due, Here') => Ran(due)'
      <4> SUFFICES ASSUME NEW due \in Due, Earlier(due, Here') PROVE Ran(due)'
        OBVIOUS
      <4>1. due.place \in Nat /\ due.turn \in Nat /\ due.place >= 1
        BY <1>1, DueNumbers
      <4>2. due.turn < turn'
        BY <2>6, <4>1 DEF Earlier, Here
      <4>3. due.turn \in DOMAIN selected /\ due.place \in DOMAIN selected[due.turn].commands
        BY <1>1, DueSelected
      <4>4. ~(due.turn > turn)
        BY <3>2, <3>3, <4>1, <4>2, <4>3 DEF Later
      <4>5. due.turn = turn => due.place <= ran + 1
        BY <1>2, <2>6, <4>3
      <4> QED BY <1>2, <2>3, <4>1, <4>4, <4>5
    <3>5. \A i \in 1..(n + 1) : Earlier(makeLog'[i], Here')
      BY <1>2, <2>4, <2>6, <3>3 DEF Earlier, Here
    <3>6. 0 < Len(selected[turn'].commands)
      <4>1. selected[turn'].commands \in Seq(Seq(Parts)) /\ selected[turn'].commands # <<>>
        BY <1>1, <3>3, SelectedRule
      <4>2. \A S : \A s \in Seq(S) : s # <<>> => Len(s) > 0
        OBVIOUS
      <4>3. Len(selected[turn'].commands) > 0
        BY <4>1, <4>2
      <4> QED BY <4>3
    <3>7. RunInv'
      BY <1>1, <1>7, <1>9, <2>2, <2>6, <3>3, <3>4, <3>5, <3>6 DEF RunInv
    <3>8. makePc' = "run" /\ makeExit' = -1
      BY <1>1, <2>6 DEF RunInv
    <3> QED BY <1>8, <1>9, <1>14, <1>15, <1>16, <2>1, <3>7, <3>8 DEF DispatchInv
  <2>7. CASE /\ ran + 1 = Len(selected[turn].commands) /\ Later = {}
             /\ MakeStop(0)
             /\ UNCHANGED <<turn, ran>>
    <3>1. \A due \in Due : Ran(due)'
      <4> SUFFICES ASSUME NEW due \in Due PROVE Ran(due)'
        OBVIOUS
      <4>1. due.place \in Nat /\ due.turn \in Nat
        BY <1>1, DueNumbers
      <4>2. due.turn \in DOMAIN selected /\ due.place \in DOMAIN selected[due.turn].commands
        BY <1>1, DueSelected
      <4>3. ~(due.turn > turn)
        BY <2>7, <4>1, <4>2 DEF Later
      <4>4. due.turn = turn => due.place <= ran + 1
        BY <1>2, <2>7, <4>2
      <4> QED BY <1>2, <2>3, <4>1, <4>3, <4>4
    <3>2. makePc' = "done" /\ makeExit' = 0
      BY <2>7 DEF MakeStop
    <3> QED BY <1>8, <1>9, <1>14, <1>15, <1>16, <2>1, <3>1, <3>2 DEF DispatchInv
  <2> QED BY <2>1, <2>5, <2>6, <2>7 DEF Advance
<1> QED BY <1>17, <1>18

(* What a call by the packet's command is started with.                    *)
CallInv ==
  Dispatching =>
    LET call == TargetCalls[Running]
    IN  /\ request.target = call.target
        /\ IF call.direct
           THEN /\ request.arguments = call.arguments
                /\ inherited = MakeVariables(ScrubbedEnvironment)
           ELSE /\ request.arguments = <<>>
                /\ inherited = MakeVariables(MakeExports(call.arguments))

PacketInv == DispatchInv /\ CallInv /\ ambient \in Ambients

LEMMA GreatestIndex ==
  ASSUME NEW N \in Nat, NEW T \in SUBSET (1..N), T # {}
  PROVE  Max(T) \in T /\ \A y \in T : y <= Max(T)
<1> DEFINE D == {N - x : x \in T}
<1>0. \A x \in T : x \in Int /\ N - x \in Nat
  OBVIOUS
<1>1. D \in SUBSET Nat /\ D # {}
  BY <1>0
<1>2. Min(D) \in D /\ \A y \in D : Min(D) <= y
  BY <1>1, LeastTurn
<1>3. PICK x \in T : Min(D) = N - x
  BY <1>2
<1>4. \A y \in T : x >= y
  <2> SUFFICES ASSUME NEW y \in T PROVE x >= y
    OBVIOUS
  <2>1. N - y \in D
    OBVIOUS
  <2>2. N - x <= N - y
    BY <1>2, <1>3, <2>1
  <2> QED BY <2>2
<1>5. Max(T) \in T /\ \A y \in T : Max(T) >= y
  BY <1>4 DEF Max
<1>6. \A y \in T : Max(T) \in Int /\ y \in Int
  BY <1>0, <1>5
<1> QED BY <1>5, <1>6

\* The names of a command line, and that each has a last value.
LEMMA LastGivenIsGiven ==
  ASSUME NEW arguments \in Seq([name: STRING, value: STRING]), NEW name \in Named(arguments)
  PROVE  \E i \in DOMAIN arguments :
           /\ arguments[i].name = name /\ LastGiven(arguments, name) = arguments[i].value
           /\ arguments[i].value \in STRING
<1> DEFINE T == {i \in DOMAIN arguments : arguments[i].name = name}
<1>1. T \in SUBSET (1..Len(arguments)) /\ Len(arguments) \in Nat
  OBVIOUS
<1>2. T # {}
  BY DEF Named
<1> HIDE DEF T
<1>3. Max(T) \in T
  BY <1>1, <1>2, GreatestIndex
<1>4. Max(T) \in DOMAIN arguments /\ arguments[Max(T)].name = name
  BY <1>3 DEF T
<1>5. arguments[Max(T)] \in [name: STRING, value: STRING]
  <2>1. \A S : \A s \in Seq(S) : \A i \in DOMAIN s : s[i] \in S
    OBVIOUS
  <2> QED BY <1>4, <2>1
<1> QED BY <1>4, <1>5 DEF LastGiven, T

LEMMA ScrubbedTyped ==
  ASSUME ambient \in Ambients
  PROVE  /\ DOMAIN ScrubbedEnvironment \subseteq ChildAllowlist
         /\ \A name \in DOMAIN ScrubbedEnvironment : ScrubbedEnvironment[name] \in STRING
BY AmbientsAssumption DEF ScrubbedEnvironment, Restrict

LEMMA ExportsTyped ==
  ASSUME ambient \in Ambients, NEW arguments \in Seq([name: STRING, value: STRING])
  PROVE  \A name \in DOMAIN MakeExports(arguments) : MakeExports(arguments)[name] \in STRING
<1> SUFFICES ASSUME NEW name \in DOMAIN MakeExports(arguments)
             PROVE  MakeExports(arguments)[name] \in STRING
  OBVIOUS
<1>1. name \in DOMAIN ScrubbedEnvironment \cup Named(arguments)
  BY DEF MakeExports
<1>2. CASE name \in Named(arguments)
  BY <1>1, <1>2, LastGivenIsGiven DEF MakeExports
<1>3. CASE name \notin Named(arguments)
  BY <1>1, <1>3, ScrubbedTyped DEF MakeExports
<1> QED BY <1>2, <1>3

LEMMA VariablesTyped ==
  ASSUME NEW environment, \A name \in DOMAIN environment : environment[name] \in STRING
  PROVE  \A name \in DOMAIN MakeVariables(environment) :
           MakeVariables(environment)[name] \in STRING
BY DEF MakeVariables, Restrict

LEMMA PacketInitInv == PacketInit => PacketInv
<1> SUFFICES ASSUME PacketInit PROVE PacketInv
  OBVIOUS
<1>1. GivenTyped
  <2>1. request.arguments = <<>> /\ DOMAIN inherited = {}
    BY DEF PacketInit, MakeInit
  <2>2. \A S : <<>> \in Seq(S)
    OBVIOUS
  <2> QED BY <2>1, <2>2 DEF GivenTyped
<1>2. DispatchInv
  BY <1>1, MakeInitInv DEF PacketInit
<1>3. pc = "read"
  BY DEF PacketInit, RunnerInit
<1> QED BY <1>2, <1>3 DEF PacketInv, CallInv, Dispatching, PacketInit

LEMMA SameMake ==
  ASSUME DispatchInv, UNCHANGED makeVars
  PROVE  DispatchInv'
<1>1. directory' \in Directories
      /\ UNCHANGED <<request, inherited, makePc, selected, turn, ran, makeLog, makeExit, read>>
  BY DEF makeVars, DispatchInv
<1> QED BY <1>1, RewriteInv

LEMMA MakeStepInv ==
  ASSUME DispatchInv, MakeStep \/ Rewrite
  PROVE  DispatchInv'
<1>1. CASE Select
  BY <1>1, SelectInv
<1>2. CASE \E status \in HandlerStatuses : RunCommand(status)
  BY <1>2, RunCommandInv
<1>3. CASE CommandMissing
  BY <1>3, MissingInv
<1>4. CASE Rewrite
  BY <1>4, RewriteInv DEF Rewrite
<1> QED BY <1>1, <1>2, <1>3, <1>4 DEF MakeStep

\* A step inside a call does not change what it was called with.
LEMMA MakeStepKeeps ==
  ASSUME MakeStep \/ Rewrite
  PROVE  UNCHANGED <<request, inherited>>
BY DEF MakeStep, Rewrite, Select, RunCommand, CommandMissing

LEMMA CallKept ==
  ASSUME CallInv, UNCHANGED <<pc, packet, log, ambient, request, inherited>>
  PROVE  CallInv'
<1>1. Running' = Running /\ Dispatching' = Dispatching
  BY DEF Running, CommandAt, Dispatching
<1>2. ScrubbedEnvironment' = ScrubbedEnvironment
  BY DEF ScrubbedEnvironment
<1>3. \A arguments : MakeExports(arguments)' = MakeExports(arguments)
  BY <1>2 DEF MakeExports
<1>4. \A environment : MakeVariables(environment)' = MakeVariables(environment)
  BY DEF MakeVariables
<1>5. MakeVariables(ScrubbedEnvironment)' = MakeVariables(ScrubbedEnvironment)
  BY <1>2 DEF MakeVariables
<1>6. \A arguments : MakeVariables(MakeExports(arguments))' = MakeVariables(MakeExports(arguments))
  BY <1>3 DEF MakeVariables
<1> QED BY <1>1, <1>5, <1>6 DEF CallInv

LEMMA RunnerStepPacketInv ==
  ASSUME PacketInv, RunnerStep
  PROVE  PacketInv'
<1>1. UNCHANGED <<makeVars, ambient>>
  BY DEF RunnerStep
<1>2. DispatchInv' /\ ambient' \in Ambients
  BY <1>1, SameMake DEF PacketInv
<1>3. UNCHANGED <<request, inherited>>
  BY <1>1 DEF makeVars
<1>4. UNCHANGED <<pc, packet, log>> \/ pc' # "child"
  BY DEF RunnerStep, Change, ReadPacket, LoseCanary, EndCanary, Verify, Stop
<1>5. CallInv'
  BY <1>1, <1>3, <1>4, CallKept DEF PacketInv, CallInv, Dispatching
<1> QED BY <1>2, <1>5 DEF PacketInv

LEMMA StartPacketInv ==
  ASSUME PacketInv, StartCommand
  PROVE  PacketInv'
<1>1. ambient' = ambient /\ ambient \in Ambients /\ DispatchInv /\ UNCHANGED <<packet, log>>
  BY DEF StartCommand, StartChild, PacketInv
<1>2. Running' = Running
  BY <1>1 DEF Running, CommandAt
<1>3. CASE ~(pc' = "child" /\ Running \in DOMAIN TargetCalls)
  <2>1. UNCHANGED makeVars
    BY <1>3 DEF StartCommand
  <2>2. DispatchInv'
    BY <1>1, <2>1, SameMake
  <2>3. ~Dispatching'
    BY <1>2, <1>3 DEF Dispatching
  <2> QED BY <1>1, <2>2, <2>3 DEF PacketInv, CallInv
<1>4. CASE pc' = "child" /\ Running \in DOMAIN TargetCalls
  <2> DEFINE call == TargetCalls[Running]
  <2>1. call.arguments \in Seq([name: STRING, value: STRING])
    BY <1>4, CallsAssumption
  <2>2. ScrubbedEnvironment' = ScrubbedEnvironment
    BY <1>1 DEF ScrubbedEnvironment
  <2>3. TargetCalls[Running]' = call
    BY <1>2
  <2>4. CASE call.direct
    <3> DEFINE command == [target |-> call.target, arguments |-> call.arguments]
               environment == MakeVariables(ScrubbedEnvironment)
    <3>1. Called(command, environment)
      BY <1>4, <2>4 DEF StartCommand
    <3>2. \A name \in DOMAIN environment : environment[name] \in STRING
      BY <1>1, ScrubbedTyped, VariablesTyped
    <3>3. DispatchInv'
      <4>1. command.arguments \in Seq([name: STRING, value: STRING])
        BY <2>1
      <4> HIDE DEF command, environment
      <4> QED BY <1>1, <3>1, <3>2, <4>1, CalledInv
    <3>4. request' = command /\ inherited' = environment
      BY <3>1 DEF Called
    <3>5. MakeVariables(ScrubbedEnvironment)' = environment
      BY <2>2 DEF MakeVariables
    <3>6. CallInv'
      BY <2>3, <2>4, <3>4, <3>5 DEF CallInv
    <3> QED BY <1>1, <3>3, <3>6 DEF PacketInv
  <2>5. CASE ~call.direct
    <3> DEFINE command == [target |-> call.target, arguments |-> <<>>]
               environment == MakeVariables(MakeExports(call.arguments))
    <3>1. Called(command, environment)
      BY <1>4, <2>5 DEF StartCommand
    <3>2. \A name \in DOMAIN environment : environment[name] \in STRING
      BY <1>1, <2>1, ExportsTyped, VariablesTyped
    <3>3. DispatchInv'
      <4>1. command.arguments \in Seq([name: STRING, value: STRING])
        OBVIOUS
      <4> HIDE DEF command, environment
      <4> QED BY <1>1, <3>1, <3>2, <4>1, CalledInv
    <3>4. request' = command /\ inherited' = environment
      BY <3>1 DEF Called
    <3>5. MakeVariables(MakeExports(TargetCalls[Running].arguments))' = environment
      BY <2>2, <2>3 DEF MakeVariables, MakeExports
    <3>6. CallInv'
      BY <2>3, <2>5, <3>4, <3>5 DEF CallInv
    <3> QED BY <1>1, <3>3, <3>6 DEF PacketInv
  <2> QED BY <2>4, <2>5
<1> QED BY <1>3, <1>4

LEMMA PacketStepInv == PacketInv /\ [PacketNext]_packetVars => PacketInv'
<1> SUFFICES ASSUME PacketInv, [PacketNext]_packetVars PROVE PacketInv'
  OBVIOUS
<1>1. CASE RunnerStep
  BY <1>1, RunnerStepPacketInv
<1>2. CASE StartCommand
  BY <1>2, StartPacketInv
<1>3. CASE TargetStep
  <2>1. (MakeStep \/ Rewrite) /\ UNCHANGED <<pc, packet, log, ambient>>
    BY <1>3 DEF TargetStep, runnerVars
  <2>2. DispatchInv' /\ UNCHANGED <<request, inherited>>
    BY <2>1, MakeStepInv, MakeStepKeeps DEF PacketInv
  <2> QED BY <2>1, <2>2, CallKept DEF PacketInv
<1>4. CASE \E status \in Statuses : EndCommand(status)
  <2>1. UNCHANGED <<makeVars, ambient>> /\ pc' = "verify"
    BY <1>4 DEF EndCommand, EndChild
  <2>2. DispatchInv' /\ ambient' \in Ambients
    BY <2>1, SameMake DEF PacketInv
  <2> QED BY <2>1, <2>2 DEF PacketInv, CallInv, Dispatching
<1>5. CASE UNCHANGED packetVars
  <2>1. UNCHANGED makeVars /\ UNCHANGED <<pc, packet, log, ambient, request, inherited>>
    BY <1>5 DEF packetVars, runnerVars, makeVars
  <2>2. DispatchInv' /\ ambient' \in Ambients
    BY <2>1, SameMake DEF PacketInv
  <2> QED BY <2>1, <2>2, CallKept DEF PacketInv
<1> QED BY <1>1, <1>2, <1>3, <1>4, <1>5 DEF PacketNext

LEMMA PacketInvHolds == PacketSpec => []PacketInv
  BY PacketInitInv, PacketStepInv, PTL DEF PacketSpec

\* For any descriptors and any rewriting of them while handlers run, a command
\* that runs is one of the only rule of its packet that accepts what was given
\* (load_rules, TargetRule.matches, TargetRule.render).
THEOREM MakeOneRulePerPacket == PacketSpec => []OneRulePerPacket
<1>1. PacketInv => OneRulePerPacket
  <2> SUFFICES ASSUME PacketInv, NEW i \in DOMAIN makeLog
      PROVE  \E rule \in Accepting(makeLog[i].turn) :
               /\ Accepting(makeLog[i].turn) = {rule}
               /\ makeLog[i].place \in DOMAIN rule.commands
               /\ LET template == rule.commands[makeLog[i].place]
                      argv == makeLog[i].argv
                  IN  /\ DOMAIN argv = DOMAIN template
                      /\ \A j \in DOMAIN template :
                           IF template[j].kind = "literal"
                           THEN argv[j] = template[j].text
                           ELSE argv[j] \in rule.accepted[template[j].text]
    BY DEF OneRulePerPacket
  <2>1. makeLog # <<>> /\ DispatchInv
    BY DEF PacketInv
  <2>2. Chosen /\ LogInv
    BY <2>1 DEF DispatchInv
  <2> DEFINE t == makeLog[i].turn
             rule == selected[t]
             template == rule.commands[makeLog[i].place]
  <2>3. /\ t \in DOMAIN selected /\ makeLog[i].place \in DOMAIN rule.commands
        /\ makeLog[i].argv = Render(template, GivenValues)
    BY <2>2 DEF LogInv
  <2>4. /\ rule \in Accepting(t) /\ Accepting(t) = {rule}
        /\ rule.commands \in Seq(Seq(Parts))
        /\ \A j \in DOMAIN template : ValidPart(template[j], rule.accepted)
    BY <2>2, <2>3, SelectedRule
  <2>5. \A name \in DOMAIN rule.accepted : GivenValues[name] \in rule.accepted[name]
    BY <2>4 DEF Accepting
  <2>6. template \in Seq(Parts)
    BY <2>3, <2>4
  <2>7. \A j \in DOMAIN template : template[j] \in Parts
    BY <2>6
  <2> HIDE DEF template, rule, t
  <2>8. DOMAIN makeLog[i].argv = DOMAIN template
    BY <2>3 DEF Render
  <2>9. \A j \in DOMAIN template :
          IF template[j].kind = "literal"
          THEN makeLog[i].argv[j] = template[j].text
          ELSE makeLog[i].argv[j] \in rule.accepted[template[j].text]
    BY <2>3, <2>4, <2>5, <2>7 DEF Render, ValidPart, Parts
  <2> QED BY <2>3, <2>4, <2>8, <2>9 DEF template, t
<1> QED BY <1>1, PacketInvHolds, PTL

\* For any number of packets and commands, handlers run in order, each whole
\* before the next, up to the first failure, and 0 is returned only when all
\* that was due has run (dispatch of ci/run_make_target.py).
THEOREM MakeHandlersInOrder == PacketSpec => []HandlersInOrder
<1>1. PacketInv => HandlersInOrder
  BY DEF PacketInv, DispatchInv, LogInv, HandlersInOrder
<1> QED BY <1>1, PacketInvHolds, PTL

LEMMA WrittenDirectly ==
  ASSUME PacketInv, Dispatching, makeLog # <<>>, TargetCalls[Running].direct
  PROVE  /\ DOMAIN GivenValues = Named(TargetCalls[Running].arguments)
         /\ \A name \in Named(TargetCalls[Running].arguments) :
              /\ name \in AllowedVariables
              /\ LastGiven(TargetCalls[Running].arguments, name) # ""
              /\ GivenValues[name] = LastGiven(TargetCalls[Running].arguments, name)
<1> DEFINE arguments == request.arguments
<1>1. /\ TargetCalls[Running].arguments = arguments
      /\ inherited = MakeVariables(ScrubbedEnvironment)
      /\ ValidArguments(arguments, inherited)
      /\ arguments \in Seq([name: STRING, value: STRING])
  BY DEF PacketInv, CallInv, DispatchInv, Chosen, GivenTyped
<1>2. DOMAIN inherited = {}
  BY <1>1, ScrubbedTyped, AllowlistAssumption DEF MakeVariables, Restrict, PacketInv
<1>3. DOMAIN GivenValues = Named(arguments)
  BY <1>2 DEF GivenValues, Supplied, Named, ToSet
<1>4. ASSUME NEW name \in Named(arguments)
      PROVE  /\ name \in AllowedVariables /\ LastGiven(arguments, name) # ""
             /\ GivenValues[name] = LastGiven(arguments, name)
  <2>1. PICK i \in DOMAIN arguments :
          arguments[i].name = name /\ LastGiven(arguments, name) = arguments[i].value
    BY <1>1, LastGivenIsGiven
  <2>2. \A j \in DOMAIN arguments : arguments[j].name = name => j = i
    BY <1>1, <2>1 DEF ValidArguments
  <2>3. \A a \in ToSet(arguments) : a.name = name => a = arguments[i]
    BY <2>2 DEF ToSet
  <2>4. arguments[i] \in ToSet(arguments)
    BY DEF ToSet
  <2>5. (CHOOSE a \in ToSet(arguments) : a.name = name) = arguments[i]
    BY <2>1, <2>3, <2>4
  <2>6. GivenValues[name] = (CHOOSE a \in ToSet(arguments) : a.name = name).value
    BY <1>2, <1>3 DEF GivenValues, Supplied
  <2> QED BY <1>1, <2>1, <2>5, <2>6 DEF ValidArguments
<1> QED BY <1>1, <1>3, <1>4

LEMMA WrittenThroughMake ==
  ASSUME PacketInv, Dispatching, ~TargetCalls[Running].direct
  PROVE  LET arguments == TargetCalls[Running].arguments
             written == {name \in Named(arguments) \cap AllowedVariables :
                           LastGiven(arguments, name) # ""}
         IN  /\ DOMAIN GivenValues = written
             /\ \A name \in written : GivenValues[name] = LastGiven(arguments, name)
<1> DEFINE arguments == TargetCalls[Running].arguments
           written == {name \in Named(arguments) \cap AllowedVariables :
                         LastGiven(arguments, name) # ""}
<1>1. request.arguments = <<>> /\ inherited = MakeVariables(MakeExports(arguments))
  BY DEF PacketInv, CallInv
<1>2. ToSet(request.arguments) = {}
  BY <1>1 DEF ToSet
<1>3. DOMAIN GivenValues = DOMAIN inherited
      /\ \A name \in DOMAIN inherited : GivenValues[name] = inherited[name]
  BY <1>2 DEF GivenValues, Supplied
<1>4. DOMAIN ScrubbedEnvironment \cap AllowedVariables = {}
  BY ScrubbedTyped, AllowlistAssumption DEF PacketInv
<1> HIDE DEF arguments
<1>5. DOMAIN inherited = {name \in DOMAIN MakeExports(arguments) \cap AllowedVariables :
                            MakeExports(arguments)[name] # ""}
      /\ \A name \in DOMAIN inherited : inherited[name] = MakeExports(arguments)[name]
  BY <1>1 DEF MakeVariables, Restrict
<1>6. DOMAIN MakeExports(arguments) = DOMAIN ScrubbedEnvironment \cup Named(arguments)
      /\ \A name \in Named(arguments) :
           MakeExports(arguments)[name] = LastGiven(arguments, name)
  BY DEF MakeExports
<1>7. DOMAIN inherited = written
  BY <1>4, <1>5, <1>6
<1>8. \A name \in written : GivenValues[name] = LastGiven(arguments, name)
  BY <1>3, <1>5, <1>6, <1>7
<1> QED BY <1>3, <1>7, <1>8 DEF arguments

\* Whatever the runner was started with, the handlers of a packet's command
\* are chosen by the variables that command names (scrub_environment,
\* _environment_variables, parse_supplied_variables).
THEOREM MakeTargetsAsWritten == PacketSpec => []TargetsAsWritten
<1>1. ASSUME PacketInv, Dispatching, makeLog # <<>>
      PROVE  request.target = TargetCalls[Running].target
  BY <1>1 DEF PacketInv, CallInv
<1>2. PacketInv => TargetsAsWritten
  BY <1>1, WrittenDirectly, WrittenThroughMake DEF TargetsAsWritten
<1> QED BY <1>2, PacketInvHolds, PTL
=============================================================================
