------------------------------ MODULE PathPrefix ------------------------------
(***************************************************************************)
(* The path-prefix algebra of nsl: how a prefix typed by the user or read  *)
(* from routes.json is normalised, when a request path falls under it, and *)
(* what is left of the path once it is stripped.                           *)
(*                                                                         *)
(* A path is a sequence of tokens: the separator Slash and path segments,  *)
(* which are any other values.  The string "/api/v1/" is                   *)
(* <<Slash, "api", Slash, "v1", Slash>>.  Two segments are never adjacent. *)
(***************************************************************************)
EXTENDS Integers, Sequences

Slash == "/"
Root  == <<Slash>>

StartsWithSlash(p) == Len(p) > 0 /\ p[1] = Slash
EndsWithSlash(p)   == Len(p) > 0 /\ p[Len(p)] = Slash

\* Rust's str::starts_with on tokens.
StartsWith(p, q) == Len(q) <= Len(p) /\ SubSeq(p, 1, Len(q)) = q

\* The leading slash is added, then exactly one trailing slash is popped.
NormalizePathPrefix(p) ==
  LET rooted == IF StartsWithSlash(p) THEN p ELSE Root \o p
  IN  IF Len(rooted) > 1 /\ EndsWithSlash(rooted)
        THEN SubSeq(rooted, 1, Len(rooted) - 1)
        ELSE rooted

\* `/api` covers `/api`, `/api/` and `/api/users`, but not `/apifoo`.
PathMatchesPrefix(path, prefix) ==
  \/ prefix = Root
  \/ LET norm == NormalizePathPrefix(prefix)
     IN  path = norm \/ StartsWith(path, norm \o Root)

\* trim_start_matches('/').
TrimLeadingSlashes(p) ==
  LET keep == {i \in 1..Len(p) : \E j \in 1..i : p[j] # Slash}
  IN  IF keep = {} THEN <<>>
      ELSE SubSeq(p, CHOOSE i \in keep : \A j \in keep : i <= j, Len(p))

\* What a route with strip_prefix forwards upstream in place of the path.
StripPathPrefix(path, prefix) ==
  LET norm     == NormalizePathPrefix(prefix)
      stripped == IF StartsWith(path, norm)
                    THEN SubSeq(path, Len(norm) + 1, Len(path))
                    ELSE path
  IN  IF StartsWithSlash(stripped)
        THEN stripped
        ELSE Root \o TrimLeadingSlashes(stripped)

\* The path half of split_name_path: `name:rest` on the command line, with
\* rest given as tokens (empty when there is no colon).
SplitPath(rest) == Root \o TrimLeadingSlashes(rest)
===============================================================================
