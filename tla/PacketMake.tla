------------------------------ MODULE PacketMake ------------------------------
(***************************************************************************)
(* The packet runner with the make targets its commands name.  A command   *)
(* of the packet is a child that runs ci/run_make_target.py, through make  *)
(* or directly, or some other program.  The child has the runner's         *)
(* scrubbed environment; the variables of a make command line reach the    *)
(* program through the environment of the recipe, those of a direct call   *)
(* as its arguments.  make reports a recipe that fails as 2.               *)
(***************************************************************************)
EXTENDS PacketRunner, MakeDispatch

CONSTANTS
  TargetCalls,     \* the commands that start the program, and what they say:
                   \* [target, arguments, direct]
  Ambients,        \* environments of the runner: functions from names to values
  ChildAllowlist   \* CHILD_ENVIRONMENT_ALLOWLIST

ASSUME CallsAssumption ==
  \A c \in DOMAIN TargetCalls :
    TargetCalls[c].arguments \in Seq([name: STRING, value: STRING])
ASSUME AmbientsAssumption ==
  \A environment \in Ambients : \A name \in DOMAIN environment : environment[name] \in STRING
ASSUME AllowlistAssumption == ChildAllowlist \cap AllowedVariables = {}

VARIABLE ambient   \* os.environ of the runner

packetVars == <<runnerVars, makeVars, ambient>>

\* Mutant: the children inherit what the runner inherited.
WholeEnvironment == ambient

\* scrub_environment
ScrubbedEnvironment == Restrict(ambient, DOMAIN ambient \cap ChildAllowlist)

\* The variables of a command line; of one that is given twice the last counts.
Named(arguments) == {arguments[i].name : i \in DOMAIN arguments}

LastGiven(arguments, name) ==
  arguments[Max({i \in DOMAIN arguments : arguments[i].name = name})].value

\* What make exports to a recipe: its command line over its environment.
MakeExports(arguments) ==
  [name \in DOMAIN ScrubbedEnvironment \cup Named(arguments) |->
     IF name \in Named(arguments) THEN LastGiven(arguments, name)
     ELSE ScrubbedEnvironment[name]]

\* _environment_variables
MakeVariables(environment) ==
  Restrict(environment,
           {name \in DOMAIN environment \cap AllowedVariables : environment[name] # ""})

PacketInit ==
  /\ RunnerInit
  /\ MakeInit
  /\ ambient \in Ambients

Running == CommandAt(Len(log) + 1)
Dispatching == pc = "child" /\ Running \in DOMAIN TargetCalls

\* subprocess.run of a command, which may start the program.
StartCommand ==
  /\ StartChild
  /\ IF pc' = "child" /\ Running \in DOMAIN TargetCalls
     THEN LET call == TargetCalls[Running]
          IN  IF call.direct
              THEN Called([target |-> call.target, arguments |-> call.arguments],
                          MakeVariables(ScrubbedEnvironment))
              ELSE Called([target |-> call.target, arguments |-> <<>>],
                          MakeVariables(MakeExports(call.arguments)))
     ELSE UNCHANGED makeVars
  /\ UNCHANGED ambient

\* The program is done, and make with it.
ChildStatus == IF TargetCalls[Running].direct \/ makeExit = 0 THEN makeExit ELSE 2

EndCommand(status) ==
  /\ EndChild(status)
  /\ Dispatching => makePc = "done" /\ status = ChildStatus
  /\ UNCHANGED <<makeVars, ambient>>

RunnerStep ==
  /\ \/ \E content \in Contents : Change(content)
     \/ ReadPacket
     \/ LoseCanary
     \/ \E status \in Statuses : EndCanary(status)
     \/ Verify
  /\ UNCHANGED <<makeVars, ambient>>

TargetStep ==
  /\ pc = "child"
  /\ MakeStep \/ Rewrite
  /\ UNCHANGED <<runnerVars, ambient>>

PacketNext ==
  \/ RunnerStep
  \/ StartCommand
  \/ TargetStep
  \/ \E status \in Statuses : EndCommand(status)

PacketSpec == PacketInit /\ [][PacketNext]_packetVars

-----------------------------------------------------------------------------
\* A packet is the whole authority for what its targets do: the handlers that
\* run are chosen by the variables that the packet's command names with the
\* values it gives them, and by nothing the runner was started with.  (make
\* passes on the last of several values, and the program does not see a name
\* it does not know or an empty value: a call by hand with these is refused.)
\* (scrub_environment, _environment_variables, parse_supplied_variables.)
TargetsAsWritten ==
  Dispatching /\ makeLog # <<>> =>
    LET call == TargetCalls[Running]
        written == {name \in Named(call.arguments) \cap AllowedVariables :
                      LastGiven(call.arguments, name) # ""}
    IN  /\ request.target = call.target
        /\ DOMAIN GivenValues = written
        /\ \A name \in written : GivenValues[name] = LastGiven(call.arguments, name)
        /\ call.direct => Named(call.arguments) = written
=============================================================================
