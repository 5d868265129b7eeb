---------------------------- MODULE MakeDispatch ----------------------------
(***************************************************************************)
(* ci/run_make_target.py: the Makefile hands every target to this program, *)
(* which selects at most one rule of every packet's descriptor for the     *)
(* variables supplied and runs the commands of the selected rules.  What   *)
(* starts the program is in PacketMake.                                    *)
(*                                                                         *)
(* A descriptor that is not an object with the closed fields, a schema     *)
(* version and a list of targets is the value Malformed.  A part of a      *)
(* command template is a literal or the name of a variable.  The allowed   *)
(* values of a variable are a sequence: the one const, or the enum.        *)
(***************************************************************************)
EXTENDS Integers, SequencesExt, FiniteSetsExt

CONSTANTS
  PacketIds,         \* the packet ids, in lexical order
  AllowedVariables,  \* ALLOWED_VARIABLES
  TargetNames,       \* names that match TARGET_PATTERN
  ExecutableName(_), \* Path(...).name of a literal
  Directories,       \* what ci/targets can hold: sets of [file, body]
  Malformed,         \* the body of a file that is no descriptor
  HandlerStatuses    \* return codes of handlers

ASSUME PacketIdsAssumption == PacketIds \in Seq(STRING) /\ IsInjective(PacketIds)

\* Whatever a descriptor says, its templates are lists of lists of parts.
ASSUME DirectoriesAssumption ==
  \A entries \in Directories : \A entry \in entries : entry.body # Malformed =>
    \A i \in DOMAIN entry.body.targets :
      entry.body.targets[i].commands \in Seq(Seq([kind: {"literal", "variable"}, text: STRING]))

VARIABLES
  directory,   \* ci/targets: handlers may rewrite it
  request,     \* the command line: [target, arguments], arguments [name, value]
  inherited,   \* _environment_variables()
  makePc,      \* where main is
  selected,    \* applicable: the rule of each packet that has one, by the packet's turn
  turn,        \* the rule whose commands run, and
  ran,         \* how many of them have
  makeLog,     \* commands that ended, with the turn and place of each
  makeExit,    \* the return code of main, or -1
  read         \* history: the directory as load_rules read it

makeVars ==
  <<directory, request, inherited, makePc, selected, turn, ran, makeLog, makeExit, read>>

Literal(text) == [kind |-> "literal", text |-> text]
Variable(name) == [kind |-> "variable", text |-> name]

-----------------------------------------------------------------------------
(* load_rules                                                              *)

ShellExecutables == {"bash", "dash", "env", "sh", "zsh"}

\* _accepted_variables
ValidAccepted(accepted) ==
  \A name \in DOMAIN accepted :
    name \in AllowedVariables /\ accepted[name] # <<>> /\ IsInjective(accepted[name])

ValidPart(part, accepted) == part.kind = "variable" => part.text \in DOMAIN accepted

\* _commands
ValidCommands(commands, accepted) ==
  /\ commands # <<>>
  /\ \A i \in DOMAIN commands :
       /\ commands[i] # <<>>
       /\ \A j \in DOMAIN commands[i] : ValidPart(commands[i][j], accepted)
       /\ commands[i][1].kind = "literal"
       /\ ExecutableName(commands[i][1].text) \notin ShellExecutables

\* TargetRule: the accepted values are a set from here on.
TargetRule(packetId, target) ==
  [packetId |-> packetId, name |-> target.name, commands |-> target.commands,
   accepted |-> [name \in DOMAIN target.accepted |-> ToSet(target.accepted[name])]]

\* The signature that must be unique.
SameSignature(one, other) ==
  one.name = other.name /\ TargetRule("", one).accepted = TargetRule("", other).accepted

ValidDescriptor(entry) ==
  /\ entry.body # Malformed
  /\ entry.body.packetId \in ToSet(PacketIds)
  /\ entry.file = entry.body.packetId
  /\ entry.body.targets # <<>>
  /\ \A i \in DOMAIN entry.body.targets :
       LET target == entry.body.targets[i]
       IN  /\ target.name \in TargetNames
           /\ ValidAccepted(target.accepted)
           /\ ValidCommands(target.commands, target.accepted)
           /\ \A j \in 1..(i - 1) : ~SameSignature(entry.body.targets[j], target)

Loads(entries) == entries # {} /\ \A entry \in entries : ValidDescriptor(entry)

RulesOf(entries, packetId) ==
  UNION {{TargetRule(packetId, entry.body.targets[i]) : i \in DOMAIN entry.body.targets} :
           entry \in {e \in entries : e.body.packetId = packetId}}

-----------------------------------------------------------------------------
(* parse_supplied_variables and dispatch                                   *)

\* The explicit variables are well formed, named once, and not inherited too.
ValidArguments(arguments, environment) ==
  /\ \A i \in DOMAIN arguments :
       arguments[i].name \in AllowedVariables /\ arguments[i].value # ""
  /\ \A i, j \in DOMAIN arguments : arguments[i].name = arguments[j].name => i = j
  /\ \A i \in DOMAIN arguments : arguments[i].name \notin DOMAIN environment

\* {**inherited, **explicit}, when they do not overlap.
Supplied(arguments, environment) ==
  LET explicit == ToSet(arguments)
  IN  [name \in DOMAIN environment \cup {a.name : a \in explicit} |->
         IF name \in DOMAIN environment
         THEN environment[name]
         ELSE (CHOOSE a \in explicit : a.name = name).value]

\* TargetRule.matches
Matches(rule, supplied) ==
  /\ DOMAIN supplied = DOMAIN rule.accepted
  /\ \A name \in DOMAIN rule.accepted : supplied[name] \in rule.accepted[name]

\* TargetRule.render, for one command.
Render(template, supplied) ==
  [j \in DOMAIN template |->
     IF template[j].kind = "variable" THEN supplied[template[j].text] ELSE template[j].text]

\* The rules of one packet that apply.
Applicable(entries, packetId, target, supplied) ==
  {rule \in RulesOf(entries, packetId) : rule.name = target /\ Matches(rule, supplied)}

\* Mutant: of several rules that apply, some one is taken.
SomeAmbiguous(rules) == FALSE

Ambiguous(rules) == \E one, other \in rules : one # other

Turns == DOMAIN PacketIds

MakeInit ==
  /\ directory \in Directories
  /\ request = [target |-> "", arguments |-> <<>>]
  /\ inherited = [name \in {} |-> ""]
  /\ makePc = "idle"
  /\ selected = [t \in {} |-> <<>>]
  /\ turn = 0
  /\ ran = 0
  /\ makeLog = <<>>
  /\ makeExit = -1
  /\ read = {}

\* The program is started with a command line and an environment.
Called(command, environment) ==
  /\ makePc' = "main"
  /\ request' = command
  /\ inherited' = environment
  /\ selected' = [t \in {} |-> <<>>]
  /\ turn' = 0
  /\ ran' = 0
  /\ makeLog' = <<>>
  /\ makeExit' = -1
  /\ read' = {}
  /\ UNCHANGED directory

MakeStop(code) == makePc' = "done" /\ makeExit' = code

Refuse == MakeStop(2) /\ UNCHANGED <<selected, turn, ran, read>>

GivenValues == Supplied(request.arguments, inherited)

\* main and dispatch, up to the first command.
Select ==
  /\ makePc = "main"
  /\ LET rules(t) == Applicable(directory, PacketIds[t], request.target, GivenValues)
         owners == {t \in Turns : rules(t) # {}}
     IN  IF /\ ValidArguments(request.arguments, inherited)
            /\ request.target \in TargetNames
            /\ Loads(directory)
            /\ \A t \in Turns : ~Ambiguous(rules(t))
            /\ owners # {}
         THEN /\ selected' = [t \in owners |-> CHOOSE rule \in rules(t) : TRUE]
              /\ turn' = Min(owners) /\ ran' = 0
              /\ read' = directory
              /\ makePc' = "run"
              /\ UNCHANGED makeExit
         ELSE Refuse
  /\ UNCHANGED <<directory, request, inherited, makeLog>>

\* Mutant: the status of a command is not looked at.
NeverFails(status) == FALSE

Fails(status) == status # 0

\* The loops go on: to the next command of the rule, or to the next rule.
Later == {t \in DOMAIN selected : t > turn}

Advance ==
  \/ /\ ran + 1 < Len(selected[turn].commands)
     /\ ran' = ran + 1
     /\ UNCHANGED <<turn, makePc, makeExit>>
  \/ /\ ran + 1 = Len(selected[turn].commands) /\ Later # {}
     /\ turn' = Min(Later) /\ ran' = 0
     /\ UNCHANGED <<makePc, makeExit>>
  \/ /\ ran + 1 = Len(selected[turn].commands) /\ Later = {}
     /\ MakeStop(0)
     /\ UNCHANGED <<turn, ran>>

\* subprocess.run of the next command, which returns.
RunCommand(status) ==
  /\ makePc = "run"
  /\ makeLog' = Append(makeLog,
       [turn |-> turn, place |-> ran + 1, status |-> status,
        argv |-> Render(selected[turn].commands[ran + 1], GivenValues)])
  /\ IF Fails(status) THEN MakeStop(status) /\ UNCHANGED <<turn, ran>> ELSE Advance
  /\ UNCHANGED <<directory, request, inherited, selected, read>>

\* The executable is not there: the exception is not a TargetDescriptorError.
CommandMissing ==
  /\ makePc = "run"
  /\ MakeStop(1)
  /\ UNCHANGED <<directory, request, inherited, selected, turn, ran, makeLog, read>>

\* A handler, or another child, rewrites the descriptors.
Rewrite ==
  /\ directory' \in Directories
  /\ UNCHANGED <<request, inherited, makePc, selected, turn, ran, makeLog, makeExit, read>>

MakeStep ==
  \/ Select
  \/ \E status \in HandlerStatuses : RunCommand(status)
  \/ CommandMissing

-----------------------------------------------------------------------------
\* The rules of a packet, as it was read, that accept exactly what is given.
Accepting(t) ==
  {rule \in RulesOf(read, PacketIds[t]) :
     /\ rule.name = request.target
     /\ DOMAIN rule.accepted = DOMAIN GivenValues
     /\ \A n \in DOMAIN rule.accepted : GivenValues[n] \in rule.accepted[n]}

\* Whatever the descriptors become while handlers run, each command that runs
\* belongs to the one rule of its packet that accepts exactly the variables
\* given, and its arguments that are not literals are values that rule lists
\* (load_rules, _commands, matches, render).
OneRulePerPacket ==
  \A i \in DOMAIN makeLog : \E rule \in Accepting(makeLog[i].turn) :
    /\ Accepting(makeLog[i].turn) = {rule}
    /\ makeLog[i].place \in DOMAIN rule.commands
    /\ LET template == rule.commands[makeLog[i].place]
           argv == makeLog[i].argv
       IN  /\ DOMAIN argv = DOMAIN template
           /\ \A j \in DOMAIN template :
                IF template[j].kind = "literal"
                THEN argv[j] = template[j].text
                ELSE argv[j] \in rule.accepted[template[j].text]

\* The commands that are due, and the order they are due in.
Due ==
  UNION {{[turn |-> t, place |-> k] : k \in UNION {DOMAIN rule.commands : rule \in Accepting(t)}} :
           t \in Turns}

Earlier(one, other) ==
  \/ one.turn < other.turn
  \/ one.turn = other.turn /\ one.place < other.place

Ran(due) == \E i \in DOMAIN makeLog : makeLog[i].turn = due.turn /\ makeLog[i].place = due.place

\* Handlers run in packet order, each whole before the next begins, none of
\* their commands twice or out of its place; nothing runs after a failure,
\* which is what the call returns, and success is reported only when all that
\* is due has run (dispatch).
HandlersInOrder ==
  /\ \A i, j \in DOMAIN makeLog :
       i < j => makeLog[i].status = 0 /\ Earlier(makeLog[i], makeLog[j])
  /\ \A i \in DOMAIN makeLog : \A due \in Due : Earlier(due, makeLog[i]) => Ran(due)
  /\ makeExit = 0 => \A due \in Due : Ran(due)
  /\ makePc = "done" /\ makeLog # <<>> /\ Last(makeLog).status # 0 =>
       makeExit = Last(makeLog).status
=============================================================================
