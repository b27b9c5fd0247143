-------------------------------- MODULE Access --------------------------------
(***************************************************************************)
(* Who may call what: the keys and the mode that config.Load accepts, and   *)
(* the check of the Authorization header before every handler.  The workers' *)
(* side and Modal read the same INTERNAL_API_KEY in their own way.          *)
(*                                                                         *)
(* An environment value is its fields between white space, and whether      *)
(* white space surrounds it; a header is its fields.                        *)
(***************************************************************************)
EXTENDS Sequences

Values == [fields : Seq(STRING), padded : BOOLEAN]

Trim(v) == [v EXCEPT !.padded = FALSE]
Blank(v) == v.fields = <<>>
Word(f) == [fields |-> <<f>>, padded |-> FALSE]

\* strings.EqualFold(cfg.AppEnv, "production")
IsProduction(v) == v \in {Word("production"), Word("Production")}

Trimmed(env) ==
    [env EXCEPT !.appEnv = Trim(@), !.external = Trim(@), !.internal = Trim(@)]

\* The environments that are refused once they are read.
Unsafe(cfg) ==
    IF cfg.disabled THEN IsProduction(cfg.appEnv)
    ELSE Blank(cfg.external) \/ Blank(cfg.internal) \/ cfg.external = cfg.internal

\* Mutants of Load: the checks before the trim; the keys keep their white space.
CheckThenTrim(env) == IF Unsafe(env) THEN {} ELSE {Trimmed(env)}
KeepPadding(env) == IF Unsafe(Trimmed(env)) THEN {} ELSE {[env EXCEPT !.appEnv = Trim(@)]}

\* The configuration, or none: the environment is refused.
Load(env) == IF Unsafe(Trimmed(env)) THEN {} ELSE {Trimmed(env)}

\* requestAPIKey: exactly two fields, the first "Bearer" (in any case).
IsBearer(header) == Len(header) = 2 /\ header[1] = "Bearer"

\* The routes, and the side whose key opens them.
Routes == {"claim", "complete", "fail", "images", "jobs", "multimodal", "text"}
SchemeOf(route) == IF route \in {"claim", "complete", "fail"} THEN "internal" ELSE "external"

\* apiKeyAuthenticationFunc
Authenticated(cfg, route, header) ==
    \/ cfg.disabled
    \/ /\ IsBearer(header)
       /\ Word(header[2]) = IF SchemeOf(route) = "internal" THEN cfg.internal ELSE cfg.external

-----------------------------------------------------------------------------
\* MaybeTrigger sends "Bearer " and the key it has; run_batch takes what comes
\* after the first space, trimmed, and compares it with its own trimmed key.
ModalAccepts(cfg, env) ==
    /\ ~Blank(cfg.internal)
    /\ Trim(cfg.internal) = Trim(env.internal)

\* Config of the worker: it does not start with white space around the key.
WorkerStarts(env) == (env.disabled \/ ~Blank(env.internal)) /\ ~env.internal.padded
=============================================================================
