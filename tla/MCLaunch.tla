------------------------------- MODULE MCLaunch -------------------------------
(* A small instance of Launch for TLC. *)
EXTENDS Launch, TLC

CONSTANTS d1, d2, usr

Web  == <<"shop", "web">>
Dev  == <<"dev">>
TwoPorts == [NoLayer EXCEPT !.port_range_start = 20000, !.port_range_end = 20001]

Addr(ip, port) == [ip |-> ip, port |-> port]

Here(env, cwd)      == [user |-> usr, env |-> env, cwd |-> cwd]
BySudo(at)          == [at EXCEPT !.user = Superuser]
Flag(listen, https) == [listen |-> listen, https |-> https]
NoFlags == Flag(Unset, FALSE)

\* Nothing but the range, and a shell that has an environment of its own.
NoFiles ==
  [ etc |-> TwoPorts, home |-> NoLayer, projects |-> <<>>,
    places |-> { BySudo(Here(NoLayer, <<"shop">>)),
                 Here([NoLayer EXCEPT !.state_dir = d2, !.listen = Addr(LocalIp, 443)], <<>>) },
    flags  |-> {NoFlags, Flag(Addr("", 80), TRUE)},
    names  |-> {<<"shop">>} ]

\* A user's file with the deprecated keys and two domains, under a listen that does
\* not parse; a project with an address of its own.
UserFile ==
  [ etc  |-> [TwoPorts EXCEPT !.listen = Addr("?", 0)],
    home |-> [NoLayer EXCEPT !.port = 8080, !.bind = AnyIp, !.domains = <<Dev, Localhost>>],
    projects |-> (<<"shop">> :> [NoLayer EXCEPT !.listen = Addr("", 80), !.https = TRUE]),
    places |-> {Here(NoLayer, <<>>), Here(NoLayer, Web)},
    flags  |-> {NoFlags, Flag(Addr("10.0.0.1", 3355), FALSE)},
    names  |-> {<<"web", "dev">>} ]

\* A project within a project, with a directory of its own, a pinned port and a
\* domain below another.
TwoProjects ==
  [ etc |-> TwoPorts, home |-> [NoLayer EXCEPT !.port = 443, !.bind = "?"],
    projects |-> (<<"shop">> :> [NoLayer EXCEPT !.https = TRUE])
              @@ (Web :> [NoLayer EXCEPT !.state_dir = d1, !.app_port = 20001,
                                         !.domains = <<Dev, <<"x", "dev">> >>]),
    places |-> {Here(NoLayer, <<"shop", "api">>), Here(NoLayer, Web)},
    flags  |-> {NoFlags},
    names  |-> {<<"shop">>, <<"shop", "x", "dev">>} ]

SomeSetups == {NoFiles, UserFile, TwoProjects}
SomeLabels == {"localhost", "dev", "x", "shop", "web"}

ASSUME \A f \in SomeSetups : PortsAreNamed(f)

Cmd(words, script) == [args |-> Line(words), script |-> script]

SomeCommands ==
  { Cmd(<<"vite">>, <<>>),
    Cmd(<<"npx", "vite", "--host", "0.0.0.0">>, <<>>),
    Cmd(<<"npm", "run", "dev">>, <<"vite">>),
    Cmd(<<"npm", "run", "dev", "--", "--host", "0.0.0.0">>, <<"vite">>),
    Cmd(<<"npm", "run", "dev">>, <<"node", "server.js">>),
    Cmd(<<"pnpm", "run", "dev">>, <<"astro", "dev">>),
    Cmd(<<"yarn", "run", "dev", "--host", "x">>, <<"expo", "start">>),
    Cmd(<<"yarn", "dev">>, <<"vite">>),
    Cmd(<<"bun", "run", "dev">>, <<"wrangler", "dev">>),
    Cmd(<<"wrangler", "dev", "--ip", "0.0.0.0">>, <<>>),
    Cmd(<<"./tool", "--port", "NSL_PORT">>, <<>>),
    Cmd(<<"vite", "--port=NSL_PORT">>, <<>>),
    Cmd(<<"node", "server.js">>, <<>>),
    Cmd(<<"vite", "--port=5000">>, <<>>),
    Cmd(<<"npx", "vite", "--port", "5000", "--port", "NSL_PORT">>, <<>>),
    Cmd(<<"npm", "run", "dev", "--", "--port=NSL_PORT">>, <<"astro", "dev">>),
    Cmd(<<"npm", "run", "dev", "--port", "NSL_PORT">>, <<"vite">>),
    Cmd(<<"yarn", "dev">>, <<"./tool">>),
    Cmd(<<"bun", "run", "dev", "--port", "NSL_PORT">>, <<"./tool">>),
    Cmd(<<"pnpm", "dev">>, <<"vite">>),
    [args |-> << <<"vite", "dev">> >>, script |-> <<>>] }

Symmetry == Permutations(Procs) \cup Permutations(Pids)
===============================================================================
