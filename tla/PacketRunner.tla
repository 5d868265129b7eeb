---------------------------- MODULE PacketRunner ----------------------------
(***************************************************************************)
(* ci/run_packet_argv.py: a task packet is read once, admitted as a whole, *)
(* and its commands are run one after the other as children that may       *)
(* change the packet file; the file is compared with what was read after   *)
(* every child.                                                            *)
(*                                                                         *)
(* The packet file holds a packet, decoded and with its line ends          *)
(* translated, as read_packet_text sees it.  Two packets have one digest   *)
(* only if they are the same text.  The canary is child 0; the commands    *)
(* are numbered from 1 through both phases.                                *)
(***************************************************************************)
EXTENDS Integers, Sequences

CONSTANTS
  Packets,        \* packet texts: [contract, wellFormed, prefetch, offline]
  Irregular,      \* what is at the path is not a regular file
  Unreadable,     \* nothing, a link, or bytes that are not UTF-8
  Statuses,       \* return codes of children
  BaseName(_),    \* Path(...).name of an executable
  Casefold(_),    \* str.casefold of an argument
  MaxChanges      \* bound on the changes of the packet file

ASSUME StatusesAssumption == 0 \in Statuses
ASSUME PacketsAssumption ==
  /\ Packets \cap {Irregular, Unreadable} = {}
  /\ \A p \in Packets : p.prefetch \in Seq(Seq(STRING)) /\ p.offline \in Seq(Seq(STRING))

VARIABLES
  isolated,   \* HARNESS_OFFLINE_ENFORCED and the UV_ variables are as required
  path,       \* what the packet file holds
  packet,     \* packet_text, once read
  pc,         \* where main is
  log,        \* the commands that ended: the argv and the return code
  exit,       \* how main ended
  changes,    \* changes of the packet file, for its bound
  matched     \* history: the file held the packet at a moment since the last child ended

runnerVars == <<isolated, path, packet, pc, log, exit, changes, matched>>

Contents == Packets \cup {Irregular, Unreadable}

NotEnded == [kind |-> "NONE", code |-> 0]
Returned(code) == [kind |-> "RETURNED", code |-> code]
Refused == [kind |-> "REFUSED", code |-> 2]    \* PacketTransportError
Raised == [kind |-> "RAISED", code |-> 1]      \* any other exception

-----------------------------------------------------------------------------
(* What main admits, before it runs anything.                              *)

ForbiddenExecutables == {"bash", "dash", "env", "sh", "zsh"}
ForbiddenOfflineTokens ==
  {"add", "curl", "download", "fetch", "install", "npx", "prefetch", "pull", "sync", "wget"}

\* validate_direct_argv; load_command_field refuses an empty argv.
ValidDirectArgv(command) ==
  command # <<>> /\ BaseName(command[1]) \notin ForbiddenExecutables

\* validate_offline_argv
ValidOfflineArgv(command) ==
  LET arguments == {command[i] : i \in DOMAIN command}
  IN  /\ ValidDirectArgv(command)
      /\ {Casefold(a) : a \in arguments} \cap ForbiddenOfflineTokens = {}
      /\ ~(Len(command) >= 2 /\ command[1] = "make" /\ command[2] = "verify-offline")
      /\ command[1] = "uv" => {"--offline", "--frozen", "--no-sync"} \subseteq arguments

ValidPrefetchArgv(command) == command = <<"make", "prefetch">>

AdmittedPacket(p) ==
  /\ p.contract
  /\ p.wellFormed
  /\ \A i \in DOMAIN p.prefetch : ValidPrefetchArgv(p.prefetch[i])
  /\ \A i \in DOMAIN p.offline : ValidOfflineArgv(p.offline[i])

-----------------------------------------------------------------------------
(* The phases: prefetch, then offline acceptance.                          *)

Program(p) == p.prefetch \o p.offline

\* Mutant: the commands are taken from the file as it is now.
CommandOfFile(k) ==
  IF path \in Packets /\ k \in DOMAIN Program(path) THEN Program(path)[k] ELSE Program(packet)[k]

CommandAt(k) == Program(packet)[k]

RunnerInit ==
  /\ isolated \in BOOLEAN
  /\ path \in Contents
  /\ packet = Unreadable
  /\ pc = "read"
  /\ log = <<>>
  /\ exit = NotEnded
  /\ changes = 0
  /\ matched = FALSE

Stop(how) == pc' = "done" /\ exit' = how

\* Some child, or another program, replaces the packet file or puts it back.
Change(content) ==
  /\ changes < MaxChanges
  /\ pc # "done"
  /\ content # path
  /\ path' = content
  /\ changes' = changes + 1
  /\ matched' = (matched \/ (pc \notin {"canary", "child"} /\ content = packet))
  /\ UNCHANGED <<isolated, packet, pc, log, exit>>

\* read_packet_text
PacketText == IF path \in Packets THEN path ELSE packet

\* main, up to the start of the canary.
ReadPacket ==
  /\ pc = "read"
  /\ packet' = PacketText
  /\ \/ path = Unreadable /\ Stop(Raised)
     \/ path = Irregular /\ Stop(Refused)
     \/ path \in Packets /\ ~(AdmittedPacket(path) /\ isolated) /\ Stop(Refused)
     \/ path \in Packets /\ AdmittedPacket(path) /\ isolated /\ pc' = "canary" /\ exit' = exit
  /\ UNCHANGED <<isolated, path, log, changes, matched>>

\* subprocess.run cannot start the canary.
LoseCanary ==
  /\ pc = "canary"
  /\ Stop(Raised)
  /\ UNCHANGED <<isolated, path, packet, log, changes, matched>>

\* A canary that fails is returned before the packet is looked at again.
EndCanary(status) ==
  /\ pc = "canary"
  /\ IF status # 0 THEN Stop(Returned(status)) ELSE pc' = "verify" /\ exit' = exit
  /\ matched' = (path = packet)
  /\ UNCHANGED <<isolated, path, packet, log, changes>>

\* Mutant: a child that succeeded is trusted with the packet.
SamePacketUnlessFailed == path = packet \/ (log # <<>> /\ log[Len(log)].status = 0)

\* verify_packet_digest
SamePacket == path = packet

\* Mutant: only the last command of a run decides its result.
FailedLast ==
  log # <<>> /\ Len(log) = Len(Program(packet)) /\ log[Len(log)].status # 0

\* The return code of the last command stops the run.
Failed == log # <<>> /\ log[Len(log)].status # 0

\* After a child: its status is looked at only when the packet is unchanged.
Verify ==
  /\ pc = "verify"
  /\ \/ path = Unreadable /\ Stop(Raised)
     \/ path # Unreadable /\ ~SamePacket /\ Stop(Refused)
     \/ path # Unreadable /\ SamePacket /\ Failed /\ Stop(Returned(log[Len(log)].status))
     \/ /\ path # Unreadable /\ SamePacket /\ ~Failed
        /\ IF Len(log) = Len(Program(packet))
           THEN Stop(Returned(0))
           ELSE pc' = "next" /\ exit' = exit
  /\ UNCHANGED <<isolated, path, packet, log, changes, matched>>

\* subprocess.run starts the next command, or cannot.
StartChild ==
  /\ pc = "next"
  /\ \/ pc' = "child" /\ exit' = exit
     \/ Stop(Raised)
  /\ UNCHANGED <<isolated, path, packet, log, changes, matched>>

EndChild(status) ==
  /\ pc = "child"
  /\ log' = Append(log, [command |-> CommandAt(Len(log) + 1), status |-> status])
  /\ pc' = "verify"
  /\ matched' = (path = packet)
  /\ UNCHANGED <<isolated, path, packet, exit, changes>>

RunnerNext ==
  \/ \E content \in Contents : Change(content)
  \/ ReadPacket
  \/ LoseCanary
  \/ \E status \in Statuses : EndCanary(status) \/ EndChild(status)
  \/ Verify
  \/ StartChild

RunnerSpec == RunnerInit /\ [][RunnerNext]_runnerVars

-----------------------------------------------------------------------------
RunnerTypeOK ==
  /\ isolated \in BOOLEAN
  /\ path \in Contents
  /\ packet \in Packets \cup {Unreadable}
  /\ pc \in {"read", "canary", "verify", "next", "child", "done"}
  /\ log \in Seq([command: Seq(STRING), status: Statuses])
  /\ exit \in {NotEnded, Refused, Raised} \cup {Returned(s) : s \in Statuses}
  /\ matched \in BOOLEAN

\* However the file is changed and put back while children run, the commands
\* that run are those of the packet first read, in its order, prefetch before
\* acceptance, every one admitted before the first was started, and each
\* after all before it succeeded (main, run_commands).
RunsTheReadPacket ==
  log # <<>> =>
    /\ AdmittedPacket(packet) /\ isolated
    /\ Len(log) <= Len(Program(packet))
    /\ \A i \in 1..Len(log) :
         /\ log[i].command = Program(packet)[i]
         /\ i < Len(log) => log[i].status = 0

\* No command is started, and no success reported, unless the packet file
\* held the packet that was read at some moment after the child before it
\* ended: a change that outlives a child stops the run (verify_packet_digest
\* in run_commands and main).
AuthorityRechecked ==
  pc = "child" \/ exit = Returned(0) => matched

\* What main returns tells what happened: 0 only when the whole packet
\* succeeded, a child's code only when that child failed, or the canary did,
\* and a refusal after the start only when somebody touched the file; a child
\* that fails and leaves the packet changed is refused, not reported.
ExitExplained ==
  /\ exit = Returned(0) =>
       Len(log) = Len(Program(packet)) /\ \A i \in DOMAIN log : log[i].status = 0
  /\ exit.kind = "RETURNED" /\ exit.code # 0 =>
       log = <<>> \/ (log[Len(log)].status = exit.code /\ matched)
  /\ exit = Refused /\ log # <<>> => changes > 0
=============================================================================
