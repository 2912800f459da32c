------------------------------- MODULE ChildArgs -------------------------------
(***************************************************************************)
(* What `nsl run` makes of the command it is given                         *)
(* (crates/nsl/src/run/framework.rs, run/mod.rs): the flags it adds for    *)
(* the frameworks it knows, the placeholder it fills in and the line it    *)
(* hands to the shell.                                                     *)
(*                                                                         *)
(* An argument is the sequence of the words in it, one but for arguments   *)
(* that were quoted; "PORT" is the port that nsl allocated, as text.       *)
(* `script` is what ./package.json runs under the script's name, <<>> if   *)
(* there is none.                                                          *)
(***************************************************************************)
EXTENDS Sequences, Integers

PortFlags == {"--port", "--port=NSL_PORT", "--port=5000"}
Dashed    == PortFlags \cup {"--", "--host", "--ip"}

Word1(arg)   == arg[1]
Arg(args, i) == IF i \in DOMAIN args THEN args[i] ELSE <<"">>
HasFlag(args, flags) == \E i \in DOMAIN args : Word1(args[i]) \in flags

Mentions(args, word) == \E i \in DOMAIN args : \E j \in DOMAIN args[i] : args[i][j] = word

\* With a blank on either side of it.
MentionsInside(args, word) ==
  \E i \in DOMAIN args : \E j \in DOMAIN args[i] :
    /\ args[i][j] = word
    /\ i > 1 \/ j > 1
    /\ i < Len(args) \/ j < Len(args[i])

NoFramework == [known |-> FALSE]
Framework(strict, hostFlag, host) ==
  [known |-> TRUE, strict_port |-> strict, host_flag |-> hostFlag, host |-> host]

DetectFramework(args) ==
  IF Mentions(args, "vite") \/ Mentions(args, "react-router")
    THEN Framework(TRUE, "--host", "127.0.0.1")
  ELSE IF Mentions(args, "astro") \/ MentionsInside(args, "ng") \/ Mentions(args, "react-native")
    THEN Framework(FALSE, "--host", "127.0.0.1")
  ELSE IF Mentions(args, "expo") THEN Framework(FALSE, "--host", "localhost")
  ELSE IF Mentions(args, "wrangler") /\ Mentions(args, "dev")
    THEN Framework(FALSE, "--ip", "127.0.0.1")
  ELSE NoFramework

Managers == {<<"npm">>, <<"pnpm">>, <<"yarn">>, <<"bun">>}

\* npm_script_name finds one.
RunsScript(args) ==
  \/ Arg(args, 1) \in Managers /\ Arg(args, 2) = <<"run">> /\ Len(args) >= 3
  \/ /\ Arg(args, 1) \in {<<"yarn">>, <<"bun">>}
     /\ Word1(Arg(args, 2)) \notin Dashed \cup {"", "run"}

DetectFrameworkViaPackageJson(args, script) ==
  IF RunsScript(args) THEN DetectFramework(<<script>>) ELSE NoFramework

\* Variant with a fault: npm alone needs a separator.
NeedsSeparatorForNpm(args) == Arg(args, 1) = <<"npm">> /\ Arg(args, 2) = <<"run">>

\* detect_pkg_manager_wrapper
NeedsSeparator(args) ==
  Arg(args, 1) \in {<<"npm">>, <<"pnpm">>, <<"yarn">>} /\ Arg(args, 2) = <<"run">>

Separators(args) == {i \in DOMAIN args : args[i] = <<"--">>}

InjectFrameworkFlags(args, script) ==
  LET direct == DetectFramework(args)
      fw     == IF direct.known THEN direct ELSE DetectFrameworkViaPackageJson(args, script)
      port   == HasFlag(args, PortFlags)
      host   == HasFlag(args, {fw.host_flag})
      dashes == IF NeedsSeparator(args) /\ Separators(args) = {} THEN << <<"--">> >> ELSE <<>>
      ports  == IF port THEN <<>>
                ELSE IF fw.strict_port THEN << <<"--port">>, <<"PORT">>, <<"--strictPort">> >>
                ELSE << <<"--port">>, <<"PORT">> >>
      hosts  == IF host THEN <<>> ELSE << <<fw.host_flag>>, <<fw.host>> >>
  IN  IF ~fw.known \/ (port /\ host) THEN args ELSE args \o (dashes \o ports \o hosts)

Replaced(word) ==
  IF word = "NSL_PORT" THEN "PORT"
  ELSE IF word = "--port=NSL_PORT" THEN "--port=PORT" ELSE word

ReplacePortPlaceholders(args) ==
  [i \in DOMAIN args |-> [j \in DOMAIN args[i] |-> Replaced(args[i][j])]]

FinalArgs(args, script) == ReplacePortPlaceholders(InjectFrameworkFlags(args, script))

\* shell_command_line, as the shell reads it: one argument is a line of its own,
\* of several each is quoted and stays one.
Line(words)     == [i \in DOMAIN words |-> <<words[i]>>]
ShellArgs(args) == IF Len(args) = 1 THEN Line(args[1]) ELSE args

-------------------------------------------------------------------------------
(* External: the package managers, as the code expects them, and the        *)
(* programs they start.                                                     *)

After(args, n) == SubSeq(args, n + 1, Len(args))

\* After which argument a package manager hands on what follows to the script: its
\* name; or the first "--", as npm, pnpm and `yarn run` keep what precedes that.
HoldsBack(args) ==
  Arg(args, 1) \in {<<"npm">>, <<"pnpm">>, <<"yarn">>} /\ Arg(args, 2) = <<"run">>

HandedFrom(args) ==
  LET dashes == Separators(args)
  IN  IF ~HoldsBack(args) THEN IF Arg(args, 2) = <<"run">> THEN 3 ELSE 2
      ELSE IF dashes = {} THEN Len(args)
      ELSE CHOOSE i \in dashes : \A j \in dashes : i <= j

\* What is run in the end.
Started(args, script) ==
  IF Arg(args, 1) \in Managers THEN Line(script) \o After(args, HandedFrom(args))
  ELSE IF Arg(args, 1) = <<"npx">> THEN After(args, 1)
  ELSE args

\* These take their port from the command line only.
TakesPortFlag(args) ==
  Arg(args, 1) \in {<<"vite">>, <<"astro">>, <<"expo">>, <<"wrangler">>, <<"./tool">>}

\* The flag at i is for the given port, as text.
IsFor(args, i, joined, port) == args[i] = <<joined>> \/ Arg(args, i + 1) = <<port>>

LastOf(places) == CHOOSE i \in places : \A j \in places : j <= i

\* Whether the program that is started listens on the allocated port: the last
\* flag counts, and without one the variable PORT for those that know it.
ListensOnAllocated(args) ==
  LET flags == {i \in DOMAIN args : Word1(args[i]) \in PortFlags \cup {"--port=PORT"}}
  IN  /\ args # <<>> /\ Len(args[1]) = 1
      /\ IF flags = {} THEN ~TakesPortFlag(args)
         ELSE IsFor(args, LastOf(flags), "--port=PORT", "PORT")
===============================================================================
