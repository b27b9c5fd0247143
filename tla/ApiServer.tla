------------------------------- MODULE ApiServer -------------------------------
(***************************************************************************)
(* The API server as one process: main.run from the configuration to the     *)
(* shutdown, and the way of an HTTP request through it: body limit,           *)
(* authentication, binding, ReadEmbeddingInput, enqueueJob, the answer; and   *)
(* of a report to its webhook.                                             *)
(*                                                                         *)
(* One request is followed at a time: what requests do to each other is in    *)
(* JobQueue, SyncWait, TextCache and ModalTrigger.  OapiRequestValidator and    *)
(* echo are external: the validator lets a form through that conforms to       *)
(* openapi.yaml as far as it looks, and that is all ReadEmbeddingInput gets     *)
(* from it: numbers and lengths, but no types of images, no blank texts and no   *)
(* promise about a string that is given twice.                              *)
(***************************************************************************)
EXTENDS Naturals, Access, EmbeddingInput, WebhookTarget

CONSTANTS Environments,  \* [appEnv, disabled, external, internal]
          Bodies,        \* the forms that are posted, as sequences of parts
          Target,        \* what each URL is, by the name it has in Bodies
          Addresses, NoAddress

ASSUME ApiServerAssumption ==
    /\ Environments \subseteq
          [appEnv : Values, disabled : BOOLEAN, external : Values, internal : Values]
    /\ Bodies \subseteq Seq(Part)
    /\ \A a \in Addresses :
          /\ a \in [form : {"4", "6", "mapped"}, net : STRING, zone : BOOLEAN]
          /\ a.form # "6" => a.net \in Networks4

VARIABLES
    \* the process
    phase,     \* where main.run is
    env,       \* its environment
    config,    \* what Load made of it
    done,      \* the signal context is done
    loops,     \* the background goroutines
    \* the request under way
    stage,     \* what happens to it next
    request,   \* its route, who sent it and the fields of its Authorization
    parts,     \* the parts of its form
    read,      \* how many of them ReadEmbeddingInput has read
    input,     \* EmbeddingInput
    bucket,    \* images of the job that are in the bucket
    created,   \* whether its job has a row
    target,    \* address its webhook was posted to
    answer,    \* the status
    fault      \* history: PostgreSQL, S3, a worker or the connection failed it

processVars == <<phase, env, config, done, loops>>
jobVars     == <<parts, read, input, bucket, created>>
requestVars == <<stage, request, jobVars, target, answer, fault>>
vars == <<processVars, requestVars>>

NoRequest == [route |-> "none", caller |-> "none", header |-> <<>>]
Loops == {"cleanup", "reclaim"}
Statuses == {0, 200, 202, 204, 400, 401, 404, 413, 500, 503, 504}
Accepted == {"enqueue", "store", "create"}

TypeOK ==
    /\ phase \in {"load", "connect", "init", "serve", "return", "exited"}
    /\ env \in Environments /\ config \in Environments \cup {Trimmed(e) : e \in Environments}
    /\ done \in BOOLEAN
    /\ loops \in [Loops -> {"off", "work", "select", "done"}]
    /\ stage \in {"idle", "limit", "authenticate", "bind", "handle", "read", "notify", "answered"}
                 \cup Accepted
    /\ request.route \in Routes \cup {"none", "unknown", "run_batch"}
    /\ parts \in Bodies \cup {<<>>} /\ read \in 0 .. Len(parts)
    /\ DOMAIN input = {"text", "images", "webhook"}
    /\ bucket \in 0 .. Len(parts) /\ created \in BOOLEAN
    /\ target \in Addresses \cup {NoAddress}
    /\ answer \in Statuses /\ fault \in BOOLEAN

NoRequestYet ==
    /\ stage = "idle" /\ request = NoRequest
    /\ parts = <<>> /\ read = 0 /\ input = Nothing /\ bucket = 0 /\ created = FALSE
    /\ target = NoAddress /\ answer = 0 /\ fault = FALSE

Init ==
    /\ phase = "load"
    /\ env \in Environments /\ config = env
    /\ done = FALSE
    /\ loops = [l \in Loops |-> "off"]
    /\ NoRequestYet

-----------------------------------------------------------------------------
(***************************************************************************)
(* main.run                                                                *)
(***************************************************************************)
Enter(where) == phase' = where /\ UNCHANGED <<env, config, done, loops, requestVars>>

LoadConfig ==
    /\ phase = "load"
    /\ \/ Load(env) = {} /\ phase' = "exited" /\ UNCHANGED config
       \/ phase' = "connect" /\ config' \in Load(env)
    /\ UNCHANGED <<env, done, loops, requestVars>>

\* GetDBClient: opens, pings and migrates.
Connect == phase = "connect" /\ (Enter("init") \/ Enter("exited"))

\* The S3 client, the services, the middleware; then the goroutines and the
\* listener, which a done context does not keep from starting.
Wire ==
    /\ phase = "init"
    /\ \/ /\ phase' = "serve" /\ loops' = [l \in Loops |-> "work"]
          /\ UNCHANGED <<env, config, done, requestVars>>
       \/ Enter("return")

\* SIGINT and SIGTERM: the default action before NotifyContext; one that comes
\* after stop() kills the process as well (Restart).
Signal ==
    \/ /\ phase \in {"init", "serve"}
       /\ done' = TRUE
       /\ UNCHANGED <<phase, env, config, loops, requestVars>>
    \/ /\ phase \in {"load", "connect"}
       /\ Enter("exited")

\* Start returns when the context is done, after GracefulTimeout at the latest,
\* or when the server cannot serve.
StopServing ==
    /\ phase = "serve"
    /\ done \/ stage = "idle"
    /\ Enter("return")

\* Mutants of Return: the wait comes before stop(); there is no wait.
WaitThenStop ==
    /\ phase = "return"
    /\ \A l \in Loops : loops[l] \in {"off", "done"}
    /\ done' = TRUE /\ phase' = "exited"
    /\ UNCHANGED <<env, config, loops, requestVars>>

StopAndExit ==
    /\ phase = "return"
    /\ done' = TRUE /\ phase' = "exited"
    /\ UNCHANGED <<env, config, loops, requestVars>>

\* The deferred stop(), then background.Wait().
Return ==
    /\ phase = "return"
    /\ \/ ~done /\ done' = TRUE /\ UNCHANGED phase
       \/ /\ done
          /\ \A l \in Loops : loops[l] \in {"off", "done"}
          /\ phase' = "exited" /\ UNCHANGED done
    /\ UNCHANGED <<env, config, loops, requestVars>>

Becomes(l, what) ==
    /\ loops' = [loops EXCEPT ![l] = what]
    /\ UNCHANGED <<phase, env, config, done, requestVars>>

\* CleanupService.Run and RunReclaimLoop: a round at once, then the select.
EndRound(l) == loops[l] = "work" /\ Becomes(l, "select")
TickerFires(l) == loops[l] = "select" /\ Becomes(l, "work")
ContextDone(l) == loops[l] = "select" /\ done /\ Becomes(l, "done")

\* The container is restarted (compose.yaml), or killed at any time before;
\* requests under way are lost.
Restart ==
    /\ phase' = "load" /\ env' \in Environments /\ config' = env'
    /\ done' = FALSE /\ loops' = [l \in Loops |-> "off"]
    /\ stage' = "idle" /\ request' = NoRequest
    /\ parts' = <<>> /\ read' = 0 /\ input' = Nothing /\ bucket' = 0 /\ created' = FALSE
    /\ target' = NoAddress /\ answer' = 0 /\ fault' = FALSE

-----------------------------------------------------------------------------
(***************************************************************************)
(* From the connection to the handler.                                     *)
(***************************************************************************)
Running == phase \in {"serve", "return"}

At(where) == Running /\ stage = where /\ UNCHANGED processVars

Goto(where) == stage' = where /\ UNCHANGED <<request, target, answer>>

Respond(status) == stage' = "answered" /\ answer' = status /\ UNCHANGED <<request, target>>

Fails == fault' = TRUE

\* Callers hold the key of their side, or none.
HeaderOf(caller, scheme) ==
    <<scheme>> \o CASE caller = "client"   -> config.external.fields
                    [] caller = "worker"   -> config.internal.fields
                    [] caller = "stranger" -> <<>>

Arrive(route, caller, scheme) ==
    /\ phase = "serve" /\ stage = "idle"
    /\ caller = "worker" => WorkerStarts(env)
    /\ request' = [route |-> route, caller |-> caller, header |-> HeaderOf(caller, scheme)]
    /\ stage' = "limit"
    /\ UNCHANGED <<processVars, jobVars, target, answer, fault>>

\* mid.BodyLimit, before anything reads the body.
LimitBody ==
    /\ At("limit")
    /\ Goto("authenticate") \/ Respond(413)
    /\ UNCHANGED <<jobVars, fault>>

IsMultipart(route) == route \in {"images", "multimodal"}

\* What the validator makes of a form that it can take apart.
ValidateForm ==
    \E body \in Bodies :
        /\ parts' = body
        /\ \E S \in Examined(body) :
              IF Conforms(request.route, body, S) THEN Goto("bind") ELSE Respond(400)

\* OapiRequestValidator: it finds the operation and its security scheme and
\* calls apiKeyAuthenticationFunc, then validates the body: one that it cannot
\* read, or that ends at its limit, is refused.
Authenticate ==
    /\ At("authenticate")
    /\ \/ /\ request.route = "unknown"
          /\ Respond(404) /\ UNCHANGED parts
       \/ /\ request.route # "unknown"
          /\ IF ~Authenticated(config, request.route, request.header)
             THEN Respond(401) /\ UNCHANGED parts
             ELSE \/ Respond(400) /\ UNCHANGED parts
                  \/ IF IsMultipart(request.route) THEN ValidateForm
                     ELSE Goto("bind") /\ UNCHANGED parts
    /\ UNCHANGED <<read, input, bucket, created, fault>>

\* The wrappers: the id of the path is a UUID.
NeedsId(route) == route \in {"complete", "fail", "jobs"}

\* The wrapper and the strict handler: the id, then the JSON body or the multipart
\* reader, which fails only for a content type that the validator has just taken
\* the form apart with.
Bind ==
    /\ At("bind")
    /\ \/ NeedsId(request.route) /\ Respond(400)
       \/ request.route \in {"claim", "complete", "text"} /\ Respond(400)
       \/ IF IsMultipart(request.route) THEN Goto("read") ELSE Goto("handle")
    /\ UNCHANGED <<jobVars, fault>>

-----------------------------------------------------------------------------
(***************************************************************************)
(* PostEmbeddingsImages, PostEmbeddingsMultimodal                          *)
(***************************************************************************)
\* Mutant of ReadPart: a status openapi.yaml does not have.
ReadPartUnsupported ==
    /\ At("read") /\ read < Len(parts)
    /\ read' = read + 1
    /\ LET error == PartError(request.route, parts[read + 1]) IN
       IF error = "none"
       THEN Goto("read") /\ input' = Take(input, parts[read + 1])
       ELSE Respond(IF error = "unsupported" THEN 415 ELSE 400) /\ UNCHANGED input
    /\ UNCHANGED <<parts, bucket, created, fault>>

ReadPart ==
    /\ At("read") /\ read < Len(parts)
    /\ read' = read + 1
    /\ IF PartError(request.route, parts[read + 1]) = "none"
       THEN Goto("read") /\ input' = Take(input, parts[read + 1])
       ELSE Respond(400) /\ UNCHANGED input
    /\ UNCHANGED <<parts, bucket, created, fault>>

EndOfParts ==
    /\ At("read") /\ read = Len(parts)
    /\ IF Complete(request.route, input) THEN Goto("enqueue") ELSE Respond(400)
    /\ UNCHANGED <<jobVars, fault>>

\* Mutants of CheckWebhook: the handler does not know the error; the images are
\* stored before the URL is looked at.
CheckUnmapped ==
    /\ At("enqueue")
    /\ IF input.webhook = NoURL \/ URLAllowed(Target[input.webhook]) THEN Goto("store") ELSE Respond(500)
    /\ UNCHANGED <<jobVars, fault>>

StoreThenCheck ==
    /\ At("enqueue")
    /\ bucket' = Len(input.images)
    /\ IF input.webhook = NoURL \/ URLAllowed(Target[input.webhook]) THEN Goto("store") ELSE Respond(400)
    /\ UNCHANGED <<parts, read, input, created, fault>>

\* enqueueJob: the URL, then the images, then the rows.
CheckWebhook ==
    /\ At("enqueue")
    /\ IF input.webhook = NoURL \/ URLAllowed(Target[input.webhook]) THEN Goto("store") ELSE Respond(400)
    /\ UNCHANGED <<jobVars, fault>>

\* StoreJobImages: every type first, then the puts; images of a put that failed
\* may stay (JobQueue has the steps).
StoreImages ==
    LET known == \A i \in DOMAIN input.images : Supported(input.images[i]) IN
    /\ At("store")
    /\ \/ known /\ bucket' = Len(input.images) /\ Goto("create") /\ UNCHANGED fault
       \/ /\ input.images # <<>>
          /\ Respond(500)
          /\ IF known THEN bucket' \in 0 .. Len(input.images) /\ Fails
             ELSE UNCHANGED <<bucket, fault>>
    /\ UNCHANGED <<parts, read, input, created>>

\* A column of PostgreSQL takes no text with a NUL, and neither a text nor a URL
\* with bytes that are not UTF-8; nobody looks for them before (url.Parse refuses
\* the NUL only).
Storable(text, url) == text # "unstorable" /\ (url # NoURL => Target[url].utf8)

\* CreateJob; on an error the images are removed, if S3 lets them, whether or
\* not the rows are there.
Create ==
    LET storable == Storable(input.text, input.webhook) IN
    /\ At("create")
    /\ \/ storable /\ created' = TRUE /\ Respond(202) /\ UNCHANGED <<bucket, fault>>
       \/ /\ created' \in {FALSE, storable}
          /\ bucket' \in 0 .. bucket
          /\ Respond(500)
          /\ IF storable THEN Fails ELSE UNCHANGED fault
    /\ UNCHANGED <<parts, read, input>>

-----------------------------------------------------------------------------
(***************************************************************************)
(* The other handlers: PostEmbeddingsText, GetEmbeddingsJob, and the        *)
(* workers'.  What they do to the job is in the modules named above.         *)
(***************************************************************************)
Ends(status) == Respond(status) /\ UNCHANGED fault
EndsByFault == Respond(500) /\ Fails

\* ReadEmbeddingInput of a text, then CreateEmbedding.
PostText(text) ==
    LET storable == Storable(text, NoURL) IN
    /\ At("handle") /\ request.route = "text"
    /\ input' = [Nothing EXCEPT !.text = text]
    /\ IF text = NoText THEN Ends(400) /\ UNCHANGED created
       ELSE \/ Ends(503) /\ UNCHANGED created                  \* jobs full
            \/ ~storable /\ Ends(500) /\ UNCHANGED created
            \/ storable /\ Ends(200) /\ created' \in BOOLEAN  \* a hit makes no job
            \/ storable /\ Ends(504) /\ created' = TRUE
            \/ EndsByFault /\ created' \in BOOLEAN
    /\ UNCHANGED <<parts, read, bucket>>

\* GetJobStatus
GetStatus ==
    /\ At("handle") /\ request.route = "jobs"
    /\ Ends(200) \/ Ends(404) \/ EndsByFault
    /\ UNCHANGED jobVars

\* ClaimWorkerJob
Claim ==
    /\ At("handle") /\ request.route = "claim"
    /\ Ends(200) \/ Ends(204) \/ EndsByFault
    /\ UNCHANGED jobVars

\* CompleteWorkerJob and FailWorkerJob, up to the row; a URL from the row.
Report(u) ==
    /\ At("handle") /\ request.route \in {"complete", "fail"}
    /\ \/ Ends(404) /\ UNCHANGED input
       \/ EndsByFault /\ UNCHANGED input
       \/ Goto("notify") /\ input' = [Nothing EXCEPT !.webhook = u] /\ UNCHANGED fault
    /\ UNCHANGED <<parts, read, bucket, created>>

\* Mutant of Dial: the address is not looked at when connecting.
DialAny(host, a) == a \in Resolve(host, Addresses)

\* validateWebhookDialAddress, for each address that is tried.
Dial(host, a) == a \in Resolve(host, Addresses) /\ PublicIP(a)

\* Notify: the URL is checked again; one POST, no proxy, no redirect; whatever
\* becomes of it, the report is answered 204.
Notify ==
    /\ At("notify")
    /\ \/ UNCHANGED target
       \/ /\ input.webhook # NoURL /\ URLAllowed(Target[input.webhook])
          /\ \E a \in Addresses : Dial(Target[input.webhook].host, a) /\ target' = a
    /\ stage' = "answered" /\ answer' = 204
    /\ UNCHANGED <<request, jobVars, fault>>

\* The POST of MaybeTrigger to run_batch, as a request the server makes.
CallModal ==
    /\ Running /\ stage = "idle" /\ ~Blank(config.internal)
    /\ request' = [NoRequest EXCEPT !.route = "run_batch"]
    /\ stage' = "answered"
    /\ answer' = IF ModalAccepts(config, env) THEN 200 ELSE 401
    /\ UNCHANGED <<processVars, jobVars, target, fault>>

Leave ==
    /\ At("answered")
    /\ stage' = "idle" /\ request' = NoRequest
    /\ parts' = <<>> /\ read' = 0 /\ input' = Nothing /\ bucket' = 0 /\ created' = FALSE
    /\ target' = NoAddress /\ answer' = 0 /\ fault' = FALSE

-----------------------------------------------------------------------------
Texts == {p.content : p \in {q \in UNION {ToSet(body) : body \in Bodies} : q.field = "text"}}
StoredURLs == {NoURL} \cup {u \in DOMAIN Target : Target[u].utf8}

Serve ==
    \/ \E route \in Routes \cup {"unknown"}, caller \in {"client", "worker", "stranger"},
          scheme \in {"Bearer", "Basic"} : Arrive(route, caller, scheme)
    \/ LimitBody \/ Authenticate \/ Bind
    \/ ReadPart
    \/ EndOfParts \/ CheckWebhook \/ StoreImages \/ Create
    \/ \E t \in Texts : PostText(t)
    \/ GetStatus \/ Claim
    \/ \E u \in StoredURLs : Report(u)
    \/ Notify \/ CallModal \/ Leave

Run == LoadConfig \/ Connect \/ Wire \/ Signal \/ StopServing \/ Return

Background(l) == EndRound(l) \/ TickerFires(l) \/ ContextDone(l)

Next == Run \/ (\E l \in Loops : Background(l)) \/ Serve \/ Restart

Spec == Init /\ [][Next]_vars

\* The scheduler runs run and its goroutines; a statement whose context is done
\* returns; the select takes a case that is always ready in the end; echo's
\* Start returns once its context is done.
Fairness ==
    /\ WF_vars(Return)
    /\ WF_vars(StopServing /\ done)
    /\ \A l \in Loops : WF_vars(EndRound(l)) /\ SF_vars(ContextDone(l))

-----------------------------------------------------------------------------
(***************************************************************************)
(* Properties.                                                             *)
(***************************************************************************)

\* Behind the authentication there are only callers that hold the key of that
\* side, however the two keys were written in the environment, unless it is
\* disabled, which it never is in production (config.Load).
SidesApart ==
    stage \in {"bind", "read", "handle", "notify"} \cup Accepted =>
        \/ request.caller = IF SchemeOf(request.route) = "internal" THEN "worker" ELSE "client"
        \/ config.disabled /\ ~(env.appEnv.fields \in {<<"production">>, <<"Production">>})

\* Whoever was given the key that Load accepted gets in with it, workers and
\* Modal included, white space around it or not; only a key with white space
\* inside it opens nothing (docs/wiki/README.md:23).
KeysOpen ==
    answer = 401 =>
        /\ request.route # "run_batch"
        /\ \/ request.caller = "stranger"
           \/ request.header[1] = "Basic"
           \/ Len(request.header) # 2
           \/ request.caller = "client" /\ SchemeOf(request.route) = "internal"
           \/ request.caller = "worker" /\ SchemeOf(request.route) = "external"

\* The validator and ReadEmbeddingInput, which share the checks between them (the
\* one counts characters of the whole form, the other bytes of one part after
\* another), accept together what openapi.yaml and docs/wiki/README.md declare: a
\* form that gives no string twice is accepted only if it is valid, and as what it
\* declares; a valid one is refused only for its URL; and no form, whatever it
\* repeats, brings more than MaxImages.
InputAsDeclared ==
    /\ stage \in Accepted => Len(input.images) <= MaxImages
    /\ stage \in Accepted /\ StringsOnce(parts) =>
          Valid(request.route, parts) /\ input = Declared(parts)
    /\ stage = "answered" /\ answer = 400 /\ Valid(request.route, parts) =>
          input.webhook # NoURL /\ ~URLAllowed(Target[input.webhook])

\* A 500 means that something behind the server failed, or that the text or the
\* URL is one PostgreSQL cannot store, which nothing looks for before; such a
\* request leaves no row.
ServerErrorsExplained ==
    answer = 500 => fault \/ (~Storable(input.text, input.webhook) /\ ~created)

\* What the answer says about the job is so: a 202 has its row and all of its
\* images; a request that was refused has left neither.
AnswerTellsEffects ==
    stage = "answered" /\ IsMultipart(request.route) =>
        /\ answer = 202 => created /\ bucket = Len(Contents("images", parts))
        /\ answer \in {400, 401, 413} => ~created /\ bucket = 0

\* A webhook reaches only public addresses, whatever the URL says and whatever
\* DNS answers after the job was created (webhook_transport.go:13).
DeliveredToPublic ==
    target # NoAddress => target.net = "global" /\ ~target.zone

\* Once the signal has come, or the server has stopped for another reason, the
\* process exits: no goroutine is waited for that nobody stops.
Exits ==
    Fairness => ((phase = "serve" /\ done) \/ phase = "return") ~> (phase \in {"load", "exited"})

\* When run has returned its goroutines have ended: none is cut in the middle of
\* a round.
GoroutinesEnd ==
    phase = "exited" => \A l \in Loops : loops[l] \in {"off", "done"}
=============================================================================
