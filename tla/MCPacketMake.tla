---------------------------- MODULE MCPacketMake ----------------------------
(***************************************************************************)
(* Packets that call targets through make and directly, with and without   *)
(* variables, or break an admission rule; descriptors of two packets that  *)
(* share a target, with overlapping enums, no variables, or one fault of   *)
(* the format each; a runner started with and without a PACK variable.     *)
(***************************************************************************)
EXTENDS PacketMake

MCBaseName(executable) == IF executable = "/bin/sh" THEN "sh" ELSE executable
MCCasefold(argument) == IF argument = "FETCH" THEN "fetch" ELSE argument

Prefetch == <<"make", "prefetch">>
MakeA == <<"make", "build", "BACKEND=a">>
MakeB == <<"make", "build", "BACKEND=b">>
MakeBoth == <<"make", "build", "BACKEND=a", "PACK=a">>
DirectA == <<"python3", "ci/run_make_target.py", "build", "BACKEND=a">>
DirectTwice == <<"python3", "ci/run_make_target.py", "build", "BACKEND=a", "BACKEND=b">>
DirectHome == <<"python3", "ci/run_make_target.py", "build", "HOME=a">>
MakeTwice == <<"make", "build", "BACKEND=a", "BACKEND=b", "HOME=a">>
Misnamed == <<"make", "Build">>
Uv == <<"uv", "--offline", "--frozen", "--no-sync">>

Give(name, value) == [name |-> name, value |-> value]
Call(target, arguments, direct) ==
  [target |-> target, arguments |-> arguments, direct |-> direct]

MCTargetCalls ==
  [c \in {Prefetch, MakeA, MakeB, MakeBoth, DirectA, DirectTwice, DirectHome, MakeTwice,
         Misnamed} |->
     CASE c = Prefetch    -> Call("prefetch", <<>>, FALSE)
       [] c = MakeA       -> Call("build", <<Give("BACKEND", "a")>>, FALSE)
       [] c = MakeB       -> Call("build", <<Give("BACKEND", "b")>>, FALSE)
       [] c = MakeBoth    -> Call("build", <<Give("BACKEND", "a"), Give("PACK", "a")>>, FALSE)
       [] c = DirectA     -> Call("build", <<Give("BACKEND", "a")>>, TRUE)
       [] c = DirectTwice -> Call("build", <<Give("BACKEND", "a"), Give("BACKEND", "b")>>, TRUE)
       [] c = DirectHome  -> Call("build", <<Give("HOME", "a")>>, TRUE)
       [] c = MakeTwice   -> Call("build", <<Give("BACKEND", "a"), Give("BACKEND", "b"), Give("HOME", "a")>>, FALSE)
       [] c = Misnamed    -> Call("Build", <<>>, FALSE)]

Text(contract, wellFormed, prefetch, offline) ==
  [contract |-> contract, wellFormed |-> wellFormed, prefetch |-> prefetch, offline |-> offline]

MCPackets ==
  {Text(TRUE, TRUE, <<Prefetch>>, <<MakeA, Uv>>),
   Text(TRUE, TRUE, <<>>, <<MakeTwice, MakeBoth>>),
   Text(TRUE, TRUE, <<>>, <<DirectA, Misnamed>>),
   Text(TRUE, TRUE, <<>>, <<MakeB, DirectTwice>>),
   Text(TRUE, TRUE, <<>>, <<DirectHome>>),
   Text(TRUE, TRUE, <<MakeA>>, <<Uv>>),
   Text(TRUE, TRUE, <<>>, <<MakeA, <<"/bin/sh">> >>)}

MCPacketIds == <<"SDK-001", "SDK-002">>
MCVariables == {"BACKEND", "PACK"}
MCTargetNames == {"build", "prefetch"}

None == [n \in {} |-> <<>>]
Target(name, accepted, commands) ==
  [name |-> name, accepted |-> accepted, commands |-> commands]
Body(packetId, targets) == [packetId |-> packetId, targets |-> targets]
File(packetId, targets) == [file |-> packetId, body |-> Body(packetId, targets)]

Lit(text) == Literal(text)
Build == << <<Lit("python3"), Lit("build.py")>>, <<Lit("python3"), Lit("check.py")>> >>
BuildFor == << <<Lit("python3"), Variable("BACKEND")>> >>
Both(b, p) == [n \in {"BACKEND", "PACK"} |-> IF n = "BACKEND" THEN b ELSE p]
Backend(b) == [n \in {"BACKEND"} |-> b]


First ==
  {File("SDK-001", <<Target("build", None, Build), Target("build", Backend(<<"a", "b">>), BuildFor),
                     Target("prefetch", None, Build)>>),
   File("SDK-001", <<Target("build", Backend(<<"a", "b">>), BuildFor),
                     Target("build", Backend(<<"b", "c">>), Build)>>)}

Second ==
  {File("SDK-002", <<Target("build", None, Build)>>),
   File("SDK-002", <<Target("build", Both(<<"a">>, <<"a">>),
                     << <<Lit("python3"), Variable("PACK"), Variable("BACKEND")>> >>),
                     Target("build", Backend(<<"b", "a">>), Build)>>)}

\* Files that load_rules refuses.
Refusable ==
  {File("SDK-001", <<Target("build", Backend(<<"a", "b">>), BuildFor),
                     Target("build", Backend(<<"b", "a">>), Build)>>),
   File("SDK-002", <<Target("build", None, BuildFor)>>),
   File("SDK-002", <<Target("build", Backend(<<"a", "a">>), BuildFor)>>),
   File("SDK-002", <<Target("build", Backend(<<"a">>), << <<Variable("BACKEND")>> >>)>>),
   File("SDK-002", <<Target("build", None, << <<Lit("/bin/sh"), Lit("build")>> >>)>>),
   [file |-> "SDK-002", body |-> Body("SDK-001", <<Target("build", None, Build)>>)],
   [file |-> "SDK-002", body |-> Malformed]}

MCDirectories ==
  {{}} \cup {{f} : f \in First \cup Refusable} \cup {{f, s} : f \in First, s \in Second}

MCAmbients == {[n \in {"HOME"} |-> "home"], [n \in {"HOME", "PACK"} |-> "a"]}
=============================================================================
