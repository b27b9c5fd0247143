-------------------------- MODULE ApiServer_proofs --------------------------
(***************************************************************************)
(* Theorems of ApiServer: who gets past the authentication, what a 500 means, *)
(* where a webhook goes, what is left running, which forms are accepted and as   *)
(* what, and what an answer says, for any environments, any forms of any number  *)
(* of parts, any limits, any URLs and any addresses.                        *)
(***************************************************************************)
EXTENDS ApiServer, EmbeddingInput_proofs, TLAPS

Behind == {"bind", "read", "handle", "notify"} \cup Accepted
Callers == {"client", "worker", "stranger"}
Images == {"jpeg", "png", "webp"}

\* Before the goroutines are started there are none and no request; after run has
\* returned they have ended; and the configuration is one that Load let through.
PhaseInv ==
    /\ phase \in {"load", "connect", "init"} =>
          stage = "idle" /\ \A l \in Loops : loops[l] = "off"
    /\ GoroutinesEnd
    /\ env \in Environments
    /\ config \in Load(env) \/ (phase \in {"load", "exited"} /\ stage = "idle")

\* The header is its caller's, and what is behind the authentication passed it.
AccessInv ==
    /\ stage \in {"limit", "authenticate"} \cup Behind =>
          /\ request.caller \in Callers /\ request.route # "run_batch"
          /\ \E scheme \in {"Bearer", "Basic"} :
                request.header = HeaderOf(request.caller, scheme)
    /\ stage \in Behind => Authenticated(config, request.route, request.header)

\* Only images of the types of jobImageContentType are taken; until there is an
\* answer there is no status and no webhook was sent.
AnswerInv ==
    /\ DOMAIN input = {"text", "images", "webhook"} /\ input.images \in Seq(Images)
    /\ stage # "answered" => answer = 0 /\ target = NoAddress
    /\ ServerErrorsExplained
    /\ DeliveredToPublic

\* A 401 was given to a header of its caller's, which did not pass.
RefusedInv ==
    answer = 401 =>
        /\ request.route # "run_batch" /\ request.caller \in Callers
        /\ \E scheme \in {"Bearer", "Basic"} :
              request.header = HeaderOf(request.caller, scheme)
        /\ ~Authenticated(config, request.route, request.header)

\* What has been read of the form: no part has ended the reading, and the input is
\* what the parts so far declare.
SoFar == SubSeq(parts, 1, read)

ReadInv ==
    /\ input.images = Contents("images", SoFar)
    /\ StringsOnce(parts) => input = Declared(SoFar)
    /\ \A i \in 1 .. read : PartError(request.route, parts[i]) = "none"

\* What the validator has let through.
FormInv == \E S \in Examined(parts) : Conforms(request.route, parts, S)

\* A form is there from the authentication on, when the validator let it through or
\* the answer is given; its parts are read one by one.
InputInv ==
    /\ parts \in Seq(Part) /\ read \in 0 .. Len(parts)
    /\ parts # <<>> => /\ IsMultipart(request.route)
                      /\ stage \in {"bind", "read", "answered"} \cup Accepted
    /\ stage \in {"idle", "limit", "authenticate", "bind"} => input = Nothing /\ read = 0
    /\ stage \in {"handle", "notify"} => ~IsMultipart(request.route)
    /\ stage = "bind" /\ IsMultipart(request.route) => FormInv
    /\ stage \in {"read"} \cup Accepted => IsMultipart(request.route) /\ FormInv /\ ReadInv
    /\ stage \in Accepted => read = Len(parts) /\ Complete(request.route, input)
    /\ InputAsDeclared

\* The images are stored before the rows and the rows before the answer.
EffectInv ==
    /\ stage \notin {"create", "answered"} => bucket = 0
    /\ stage = "create" => bucket = Len(input.images)
    /\ stage # "answered" => ~created
    /\ AnswerTellsEffects

Inductive ==
    TypeOK /\ PhaseInv /\ AccessInv /\ AnswerInv /\ RefusedInv /\ InputInv /\ EffectInv

-----------------------------------------------------------------------------
\* With no request under way the parts that are about requests hold.
LEMMA IdleInductive ==
    NoRequestYet => AccessInv /\ AnswerInv /\ RefusedInv /\ InputInv /\ EffectInv
<1> SUFFICES ASSUME NoRequestYet PROVE AccessInv /\ AnswerInv /\ RefusedInv /\ InputInv /\ EffectInv
  OBVIOUS
<1>1. AccessInv /\ AnswerInv /\ RefusedInv
  BY DEF NoRequestYet, AccessInv, AnswerInv, RefusedInv, ServerErrorsExplained, DeliveredToPublic,
         Nothing, Behind, Accepted
<1>2. InputInv /\ EffectInv
  BY DEF NoRequestYet, InputInv, InputAsDeclared, EffectInv, AnswerTellsEffects, Accepted, Nothing
<1> QED
  BY <1>1, <1>2

LEMMA IdleTyped == Init => TypeOK /\ PhaseInv
<1> SUFFICES ASSUME Init PROVE TypeOK /\ PhaseInv
  OBVIOUS
<1> USE DEF Init
<1>1. request.route = "none" /\ DOMAIN input = {"text", "images", "webhook"} /\ Len(parts) = 0
  BY DEF NoRequestYet, NoRequest, Nothing
<1>2. parts = <<>> /\ read = 0 /\ bucket = 0 /\ 0 \in 0 .. Len(parts)
  BY <1>1 DEF NoRequestYet
<1>3. TypeOK
  BY <1>1, <1>2 DEF NoRequestYet, TypeOK, Statuses, Loops
<1>4. PhaseInv
  BY DEF NoRequestYet, PhaseInv, GoroutinesEnd
<1> QED
  BY <1>3, <1>4

LEMMA InitInductive == Init => Inductive
BY IdleInductive, IdleTyped DEF Init, Inductive

\* Restart is like Init, whatever was under way.
LEMMA RestartStep == ASSUME Restart PROVE Inductive'
<1>1. Init'
  BY DEF Restart, Init, NoRequestYet
<1> QED
  BY <1>1, InitInductive, PTL

\* Load lets through at most one configuration, which is trimmed.
LEMMA Loaded == \A e : Load(e) \subseteq {Trimmed(e)}
BY DEF Load

-----------------------------------------------------------------------------
(***************************************************************************)
(* The process.                                                            *)
(***************************************************************************)
ProcessStep == Run \/ (\E l \in Loops : Background(l))

LEMMA ProcessLeavesRequests ==
    ASSUME ProcessStep PROVE UNCHANGED requestVars
BY DEF ProcessStep, Run, LoadConfig, Connect, Wire, Signal, StopServing, Return, Enter, Background,
       EndRound, TickerFires, ContextDone, Becomes

LEMMA PhaseStep ==
    ASSUME PhaseInv, ProcessStep PROVE PhaseInv' /\ (stage # "idle" => UNCHANGED config)
<1> USE DEF PhaseInv, GoroutinesEnd
<1>0. stage' = stage
  BY ProcessLeavesRequests DEF requestVars
<1>1. CASE LoadConfig
  BY <1>0, <1>1 DEF LoadConfig
<1>2. CASE Connect \/ Signal \/ StopServing
  BY <1>0, <1>2 DEF Connect, Signal, StopServing, Enter
<1>3. CASE Wire
  BY <1>0, <1>3 DEF Wire, Enter
<1>4. CASE Return
  BY <1>0, <1>4 DEF Return
<1>5. ASSUME NEW l \in Loops, Background(l) PROVE PhaseInv' /\ (stage # "idle" => UNCHANGED config)
  BY <1>0, <1>5 DEF Background, EndRound, TickerFires, ContextDone, Becomes
<1> QED
  BY <1>1, <1>2, <1>3, <1>4, <1>5 DEF ProcessStep, Run

LEMMA ProcessTyped ==
    ASSUME TypeOK, PhaseInv, ProcessStep PROVE TypeOK'
<1>1. UNCHANGED <<stage, request, parts, read, input, bucket, created, target, answer, fault>>
  BY ProcessLeavesRequests DEF requestVars, jobVars
<1>2. /\ phase' \in {"load", "connect", "init", "serve", "return", "exited"}
      /\ env' = env /\ done' \in BOOLEAN
      /\ config' = config \/ config' \in Load(env)
      /\ loops' \in [Loops -> {"off", "work", "select", "done"}]
  <2>1. CASE LoadConfig \/ Connect \/ Signal \/ StopServing \/ Return
    BY <2>1 DEF TypeOK, LoadConfig, Connect, Signal, StopServing, Return, Enter
  <2>2. CASE Wire
    BY <2>2 DEF TypeOK, Wire, Enter
  <2>3. ASSUME NEW l \in Loops, Background(l)
        PROVE  /\ UNCHANGED <<phase, env, config, done>>
               /\ loops' \in [Loops -> {"off", "work", "select", "done"}]
    BY <2>3 DEF TypeOK, Background, EndRound, TickerFires, ContextDone, Becomes
  <2> QED
    BY <2>1, <2>2, <2>3 DEF ProcessStep, Run, TypeOK
<1>3. config' \in Environments \cup {Trimmed(e) : e \in Environments}
  BY <1>2, Loaded DEF TypeOK
<1> QED
  BY <1>1, <1>2, <1>3 DEF TypeOK

LEMMA ProcessInductive ==
    ASSUME Inductive, ProcessStep PROVE Inductive'
<1>1. UNCHANGED <<stage, request, parts, read, input, bucket, created, target, answer, fault>>
  BY ProcessLeavesRequests DEF requestVars, jobVars
<1>2. PhaseInv' /\ (stage # "idle" => UNCHANGED config)
  BY PhaseStep DEF Inductive
<1>3. AnswerInv'
  BY <1>1 DEF Inductive, AnswerInv, ServerErrorsExplained, DeliveredToPublic
<1>4. AccessInv'
  BY <1>1, <1>2 DEF Inductive, AccessInv, HeaderOf, Behind, Accepted
<1>5. RefusedInv'
  <2>1. answer = 401 => UNCHANGED config
    BY <1>2 DEF Inductive, AnswerInv
  <2> QED
    BY <1>1, <2>1 DEF Inductive, RefusedInv, HeaderOf, Authenticated
<1>6. InputInv' /\ EffectInv'
  BY <1>1 DEF Inductive, InputInv, FormInv, ReadInv, SoFar, InputAsDeclared, EffectInv, AnswerTellsEffects
<1>7. TypeOK'
  BY ProcessTyped DEF Inductive
<1> QED
  BY <1>2, <1>3, <1>4, <1>5, <1>6, <1>7 DEF Inductive

-----------------------------------------------------------------------------
(***************************************************************************)
(* The requests.                                                           *)
(***************************************************************************)
LEMMA ServeKeepsProcess ==
    ASSUME Serve PROVE UNCHANGED processVars /\ phase \in {"serve", "return"}
BY DEF Serve, Arrive, LimitBody, Authenticate, Bind, ReadPart, EndOfParts, CheckWebhook, StoreImages,
       Create, PostText, GetStatus, Claim, Report, Notify, CallModal, Leave, At, Running

LEMMA ServePhase ==
    ASSUME PhaseInv, Serve PROVE PhaseInv'
BY ServeKeepsProcess DEF PhaseInv, GoroutinesEnd, processVars

\* What follows the authentication changes neither the request nor how it passed.
AfterAuthentication ==
    \/ Bind \/ ReadPart \/ EndOfParts \/ CheckWebhook \/ StoreImages \/ Create
    \/ (\E t \in Texts : PostText(t)) \/ GetStatus \/ Claim
    \/ (\E u \in StoredURLs : Report(u)) \/ Notify

LEMMA StaysBehind ==
    ASSUME AfterAuthentication
    PROVE  /\ stage \in Behind /\ stage' \in Behind \cup {"answered"} /\ request' = request
           /\ answer' = answer \/ answer' # 401
<1> USE DEF At, Goto, Respond, Ends, EndsByFault, Behind, Accepted
<1>1. CASE Bind \/ EndOfParts \/ CheckWebhook
  BY <1>1 DEF Bind, EndOfParts, CheckWebhook
<1>2. CASE ReadPart
  BY <1>2 DEF ReadPart
<1>3. CASE StoreImages
  BY <1>3 DEF StoreImages
<1>4. CASE Create
  <2>1. stage = "create" /\ stage' = "answered" /\ request' = request /\ answer' \in {202, 500}
    BY <1>4 DEF Create
  <2> QED
    BY <2>1
<1>5. ASSUME NEW t, PostText(t)
      PROVE  /\ stage \in Behind /\ stage' \in Behind \cup {"answered"} /\ request' = request
             /\ answer' = answer \/ answer' # 401
  BY <1>5 DEF PostText
<1>6. CASE GetStatus \/ Claim
  BY <1>6 DEF GetStatus, Claim
<1>7. ASSUME NEW u, Report(u)
      PROVE  /\ stage \in Behind /\ stage' \in Behind \cup {"answered"} /\ request' = request
             /\ answer' = answer \/ answer' # 401
  BY <1>7 DEF Report
<1>8. CASE Notify
  BY <1>8 DEF Notify
<1> QED
  BY <1>1, <1>2, <1>3, <1>4, <1>5, <1>6, <1>7, <1>8 DEF AfterAuthentication

LEMMA ServeAccess ==
    ASSUME AccessInv, Serve PROVE AccessInv'
<1> USE DEF AccessInv
<1>0. UNCHANGED config
  BY ServeKeepsProcess DEF processVars
<1>1. ASSUME NEW route \in Routes \cup {"unknown"}, NEW caller \in Callers, NEW scheme \in {"Bearer", "Basic"},
             Arrive(route, caller, scheme)
      PROVE  AccessInv'
  BY <1>0, <1>1 DEF Arrive, HeaderOf, Behind, Accepted, Routes
<1>2. CASE LimitBody
  BY <1>0, <1>2 DEF LimitBody, At, Goto, Respond, HeaderOf, Behind, Accepted
<1>3. CASE Authenticate
  <2>1. /\ stage = "authenticate" /\ request' = request
        /\ \/ stage' = "answered"
           \/ stage' = "bind" /\ Authenticated(config, request.route, request.header)
    BY <1>3 DEF Authenticate, ValidateForm, At, Goto, Respond
  <2> QED
    BY <1>0, <2>1 DEF HeaderOf, Authenticated, Behind, Accepted
<1>4. CASE AfterAuthentication
  BY <1>0, <1>4, StaysBehind DEF HeaderOf, Behind, Accepted, Authenticated
<1>5. CASE CallModal \/ Leave
  BY <1>5 DEF CallModal, Leave, Behind, Accepted
<1> QED
  BY <1>1, <1>2, <1>3, <1>4, <1>5 DEF Serve, AfterAuthentication, Callers

-----------------------------------------------------------------------------
(***************************************************************************)
(* The input, the answer and the webhook.                                  *)
(***************************************************************************)
InputOK == DOMAIN input = {"text", "images", "webhook"} /\ input.images \in Seq(Images)

LEMMA PartTaken ==
    ASSUME InputOK, NEW mode, NEW p, PartError(mode, p) = "none", input' = Take(input, p)
    PROVE  InputOK'
<1>1. p.field \in {"text", "images", "webhook_url"}
  BY DEF PartError
<1>2. CASE p.field = "text"
  BY <1>2 DEF InputOK, Take
<1>3. CASE p.field = "webhook_url"
  BY <1>3 DEF InputOK, Take
<1>4. CASE p.field = "images"
  <2>1. p.content \in Images
    BY <1>4 DEF PartError, ImageError, Supported, Images
  <2>2. input' = [input EXCEPT !.images = Append(@, p.content)]
    BY <1>4 DEF Take
  <2>3. DOMAIN input' = {"text", "images", "webhook"} /\ input'.images = Append(input.images, p.content)
    BY <2>2 DEF InputOK
  <2>4. Append(input.images, p.content) \in Seq(Images)
    BY <2>1 DEF InputOK
  <2> QED
    BY <2>3, <2>4 DEF InputOK
<1> QED
  BY <1>1, <1>2, <1>3, <1>4

\* publicWebhookIP lets only addresses of the public Internet through.
LEMMA PublicIsGlobal ==
    ASSUME NEW a \in Addresses, PublicIP(a) PROVE a.net = "global" /\ ~a.zone
<1>1. /\ a \in [form : {"4", "6", "mapped"}, net : STRING, zone : BOOLEAN]
      /\ a.form # "6" => a.net \in Networks4
  BY ApiServerAssumption
<1>2. Unmap(a).net = a.net /\ Unmap(a).zone = a.zone /\ (a.form = "6" => Unmap(a).form = "6")
  BY <1>1 DEF Unmap
<1>3. /\ a.net \notin NotGlobalUnicast \cup Private \cup Blocked /\ ~a.zone
      /\ a.form = "6" => a.net \in GlobalUnicast6
  BY <1>2 DEF PublicIP
<1> QED
  BY <1>1, <1>3 DEF Networks4, GlobalUnicast6, Blocked

LEMMA ServeAnswer ==
    ASSUME AnswerInv, InputInv, EffectInv, Serve PROVE AnswerInv'
<1> USE DEF AnswerInv, ServerErrorsExplained, DeliveredToPublic
<1>1. CASE \/ LimitBody \/ Authenticate \/ Bind \/ EndOfParts \/ CheckWebhook \/ GetStatus \/ Claim
           \/ \E route, caller, scheme : Arrive(route, caller, scheme)
  BY <1>1 DEF LimitBody, Authenticate, ValidateForm, Bind, EndOfParts, CheckWebhook, GetStatus, Claim,
              Arrive, At, Goto, Respond, Ends, EndsByFault, Fails, jobVars
<1>2. CASE ReadPart
  <2>1. InputOK'
    BY <1>2, PartTaken DEF ReadPart, InputOK
  <2> QED
    BY <1>2, <2>1 DEF ReadPart, At, Goto, Respond, InputOK
<1>3. CASE StoreImages
  <2>1. \A i \in DOMAIN input.images : Supported(input.images[i])
    BY DEF Supported, Images
  <2> QED
    BY <1>3, <2>1 DEF StoreImages, At, Goto, Respond, Fails
<1>4. CASE Create
  <2>1. /\ stage = "create" /\ stage' = "answered" /\ input' = input /\ target' = target
        /\ answer' \in {202, 500}
    BY <1>4 DEF Create, At, Respond
  <2> DEFINE storable == Storable(input.text, input.webhook)
  <2>2. \/ storable /\ answer' = 202
        \/ created' \in {FALSE, storable} /\ IF storable THEN fault' = TRUE ELSE UNCHANGED fault
    <3> HIDE DEF storable
    <3> QED
      BY <1>4, Zenon DEF Create, Respond, Fails, storable
  <2>3. answer' = 500 => fault' \/ (~Storable(input.text, input.webhook) /\ ~created')
    <3>1. CASE storable
      BY <2>2, <3>1
    <3>2. CASE ~storable
      <4>1. storable \in BOOLEAN
        BY DEF Storable
      <4>2. answer' = 500 => created' \in {FALSE, storable}
        BY <2>2, <3>2
      <4> QED
        BY <3>2, <4>1, <4>2
    <3> QED
      BY <3>1, <3>2
  <2> QED
    BY <2>1, <2>3
<1>5. ASSUME NEW t, PostText(t) PROVE AnswerInv'
  <2>1. InputOK' /\ input'.text = t /\ input'.webhook = NoURL
    BY <1>5 DEF PostText, Nothing, InputOK
  <2>2. stage = "handle" /\ stage' = "answered" /\ target' = target /\ ~created
    BY <1>5 DEF PostText, At, Respond, Ends, EndsByFault, EffectInv
  <2>3. answer' = 500 => fault' = TRUE \/ (~Storable(t, NoURL) /\ created' = created)
    BY <1>5 DEF PostText, Respond, Ends, EndsByFault, Fails
  <2> QED
    BY <2>1, <2>2, <2>3 DEF InputOK
<1>6. ASSUME NEW u, Report(u) PROVE AnswerInv'
  <2>1. InputOK'
    <3>1. input' = input \/ input' = [Nothing EXCEPT !.webhook = u]
      BY <1>6 DEF Report
    <3>2. CASE input' = [Nothing EXCEPT !.webhook = u]
      BY <3>2 DEF Nothing, InputOK
    <3> QED
      BY <3>1, <3>2 DEF InputOK
  <2> QED
    BY <1>6, <2>1 DEF Report, At, Goto, Respond, Ends, EndsByFault, Fails, InputOK
<1>7. CASE Notify
  BY <1>7, PublicIsGlobal DEF Notify, Dial, At, jobVars
<1>8. CASE CallModal
  BY <1>8 DEF CallModal, jobVars
<1>9. CASE Leave
  BY <1>9 DEF Leave, At, Nothing
<1> QED
  BY <1>1, <1>2, <1>3, <1>4, <1>5, <1>6, <1>7, <1>8, <1>9 DEF Serve

LEMMA ServeRefused ==
    ASSUME PhaseInv, AccessInv, AnswerInv, RefusedInv, Serve PROVE RefusedInv'
<1> USE DEF RefusedInv
<1>0. UNCHANGED <<config, env>> /\ config \in Load(env) /\ (stage # "answered" => answer = 0)
  BY ServeKeepsProcess DEF processVars, PhaseInv, AnswerInv
<1>1. CASE LimitBody \/ Leave \/ \E route, caller, scheme : Arrive(route, caller, scheme)
  BY <1>0, <1>1 DEF LimitBody, Leave, Arrive, At, Goto, Respond
<1>2. CASE Authenticate
  <2>1. /\ stage = "authenticate" /\ request' = request
    BY <1>2 DEF Authenticate, ValidateForm, At, Goto, Respond
  <2>2. CASE Authenticated(config, request.route, request.header) \/ request.route = "unknown"
    BY <1>0, <1>2, <2>1, <2>2 DEF Authenticate, ValidateForm, Goto, Respond
  <2>3. CASE ~Authenticated(config, request.route, request.header)
    BY <1>0, <2>1, <2>3 DEF AccessInv, HeaderOf, Authenticated
  <2> QED
    BY <2>2, <2>3
<1>3. CASE AfterAuthentication
  BY <1>0, <1>3, StaysBehind DEF Behind, Accepted
<1>4. CASE CallModal
  <2>1. config = Trimmed(env) /\ env \in Environments
    BY <1>0, Loaded DEF PhaseInv
  <2>2. Trim(config.internal) = Trim(env.internal)
    BY <2>1, ApiServerAssumption DEF Trimmed, Trim, Values
  <2>3. ModalAccepts(config, env)
    BY <1>4, <2>2 DEF CallModal, ModalAccepts
  <2> QED
    BY <1>4, <2>3 DEF CallModal
<1> QED
  BY <1>1, <1>2, <1>3, <1>4 DEF Serve, AfterAuthentication

-----------------------------------------------------------------------------
(***************************************************************************)
(* The parts and the effects.                                              *)
(***************************************************************************)
\* The images of the parts so far, when no part has ended the reading.
LEMMA ImagesOfParts ==
    ASSUME InputInv, stage \in Accepted
    PROVE  /\ input.images = Contents("images", parts)
           /\ Len(input.images) \in 0 .. Len(parts) /\ Len(input.images) <= MaxImages
<1>1. parts \in Seq(Part) /\ read = Len(parts) /\ input.images = Contents("images", SoFar)
  BY DEF InputInv, ReadInv
<1>2. input.images = Contents("images", parts)
  BY <1>1, PrefixOfAll DEF SoFar
<1>3. Cardinality(Positions("images", parts)) <= MaxImages
  BY DEF InputInv, FormInv, Conforms
<1> QED
  BY <1>1, <1>2, <1>3, ContentsCounted

\* Only a form that conforms on the whole, and of which every part can be read, is
\* valid.
LEMMA NotValid ==
    ASSUME NEW fs \in Seq(Part), NEW mode,
           \/ \E S \in Examined(fs) : ~Conforms(mode, fs, S)
           \/ \E i \in DOMAIN fs : PartError(mode, fs[i]) # "none"
    PROVE  ~Valid(mode, fs)
<1>1. ASSUME NEW S \in Examined(fs), ~Conforms(mode, fs, S) PROVE ~Valid(mode, fs)
  BY <1>1, ConformsToLess DEF Valid
<1> QED
  BY <1>1, ValidParts

\* Nor is one without parts.
LEMMA NoneIsNotValid == \A mode : ~Valid(mode, <<>>)
BY DEF Valid, Conforms

LEMMA AuthenticateInput ==
    ASSUME InputInv, Authenticate PROVE InputInv'
<1>1. /\ stage = "authenticate" /\ parts = <<>> /\ input = Nothing /\ read = 0
      /\ UNCHANGED <<read, input, request>>
      /\ stage' \in {"bind", "answered"}
  BY DEF InputInv, Authenticate, ValidateForm, At, Goto, Respond, Accepted
<1>2. CASE UNCHANGED parts /\ (stage' = "bind" => ~IsMultipart(request.route))
  BY <1>1, <1>2, NoneIsNotValid DEF InputInv, InputAsDeclared, Accepted
<1>3. CASE IsMultipart(request.route) /\ ValidateForm
  <2>0. PICK body \in Bodies :
           /\ parts' = body
           /\ \E S \in Examined(body) :
                 IF Conforms(request.route, body, S) THEN stage' = "bind" ELSE stage' = "answered"
    BY <1>3 DEF ValidateForm, Goto, Respond
  <2>1. PICK S \in Examined(body) :
           IF Conforms(request.route, body, S) THEN stage' = "bind" ELSE stage' = "answered"
    BY <2>0
  <2>2. body \in Seq(Part) /\ 0 \in 0 .. Len(body)
    BY ApiServerAssumption
  <2>3. CASE Conforms(request.route, body, S)
    <3>1. FormInv'
      BY <1>1, <2>0, <2>3 DEF FormInv
    <3> QED
      BY <1>1, <1>3, <2>0, <2>1, <2>2, <2>3, <3>1 DEF InputInv, InputAsDeclared, Accepted
  <2>4. CASE ~Conforms(request.route, body, S)
    <3>1. ~Valid(request.route, body)
      BY <2>2, <2>4, NotValid
    <3> QED
      BY <1>1, <1>3, <2>0, <2>1, <2>2, <2>4, <3>1 DEF InputInv, InputAsDeclared, Accepted
  <2> QED
    BY <2>3, <2>4
<1> QED
  BY <1>1, <1>2, <1>3 DEF Authenticate, Goto, Respond

LEMMA BindInput ==
    ASSUME InputInv, Bind PROVE InputInv'
<1>1. /\ stage = "bind" /\ input = Nothing /\ read = 0 /\ parts \in Seq(Part)
      /\ UNCHANGED <<parts, read, input, request>>
  BY DEF InputInv, Bind, At, Goto, Respond, jobVars
<1>2. \/ stage' = "answered" /\ ~IsMultipart(request.route)
      \/ stage' = "read" /\ IsMultipart(request.route)
      \/ stage' = "handle" /\ ~IsMultipart(request.route)
  BY DEF Bind, At, Goto, Respond, IsMultipart, NeedsId
<1>3. CASE ~IsMultipart(request.route)
  <2>1. parts = <<>>
    BY <1>3 DEF InputInv
  <2> QED
    BY <1>1, <1>2, <1>3, <2>1, NoneIsNotValid DEF InputInv, InputAsDeclared, Accepted
<1>4. CASE IsMultipart(request.route)
  <2>1. stage' = "read" /\ FormInv'
    BY <1>1, <1>2, <1>4 DEF InputInv, FormInv
  <2>2. SoFar' = <<>>
    BY <1>1, PrefixOfAll DEF SoFar
  <2>3. ReadInv'
    <3>1. input'.images = <<>> /\ input' = Nothing /\ \A i \in 1 .. read' : FALSE
      BY <1>1 DEF Nothing
    <3> QED
      BY <2>2, <3>1, DeclaredOfNone DEF ReadInv
  <2> QED
    BY <1>1, <1>4, <2>1, <2>3 DEF InputInv, InputAsDeclared, Accepted
<1> QED
  BY <1>3, <1>4

LEMMA ReadPartInput ==
    ASSUME InputInv, InputOK, ReadPart PROVE InputInv'
<1> DEFINE p == parts[read + 1]
<1>1. /\ stage = "read" /\ parts \in Seq(Part) /\ read \in Nat /\ read < Len(parts)
      /\ read' = read + 1 /\ UNCHANGED <<parts, request>>
      /\ IsMultipart(request.route) /\ FormInv /\ ReadInv
  BY DEF InputInv, ReadPart, At, Goto, Respond
<1>2. /\ read' \in 0 .. Len(parts) /\ read + 1 \in DOMAIN parts
      /\ \A i \in 1 .. read' : i \in 1 .. read \/ i = read + 1
  BY <1>1
<1>3. /\ SoFar \in Seq(Part) /\ p \in Part
      /\ SoFar' = Append(SoFar, p)
      /\ StringsOnce(parts) => StringsOnce(Append(SoFar, p))
  BY <1>1, PrefixOfMore DEF SoFar
<1>4. FormInv'
  BY <1>1 DEF FormInv
<1> HIDE DEF p
<1>5. CASE PartError(request.route, p) = "none"
  <2>1. stage' = "read" /\ input' = Take(input, p)
    BY <1>5 DEF ReadPart, Goto, p
  <2>2. input'.images = Contents("images", SoFar')
    BY <1>1, <1>3, <1>5, <2>1, TakeImages DEF ReadInv, InputOK
  <2>3. StringsOnce(parts) => input' = Declared(SoFar')
    BY <1>1, <1>3, <1>5, <2>1, TakeIsDeclared DEF ReadInv
  <2>4. \A i \in 1 .. read' : PartError(request.route, parts[i]) = "none"
    BY <1>1, <1>2, <1>5 DEF ReadInv, p
  <2>5. ReadInv'
    BY <1>1, <2>2, <2>3, <2>4 DEF ReadInv
  <2> QED
    BY <1>1, <1>2, <1>4, <2>1, <2>5 DEF InputInv, InputAsDeclared, Accepted
<1>6. CASE PartError(request.route, p) # "none"
  <2>1. stage' = "answered"
    BY <1>6 DEF ReadPart, Respond, p
  <2>2. ~Valid(request.route, parts)
    BY <1>1, <1>2, <1>6, NotValid DEF p
  <2> QED
    BY <1>1, <1>2, <2>1, <2>2 DEF InputInv, InputAsDeclared, Accepted
<1> QED
  BY <1>5, <1>6

LEMMA EndOfPartsInput ==
    ASSUME InputInv, EndOfParts PROVE InputInv'
<1>1. /\ stage = "read" /\ parts \in Seq(Part) /\ read = Len(parts) /\ read \in 0 .. Len(parts)
      /\ IsMultipart(request.route) /\ FormInv /\ ReadInv
      /\ UNCHANGED <<parts, read, input, request>>
  BY DEF InputInv, EndOfParts, At, Goto, Respond, jobVars
<1>2. SoFar = parts /\ DOMAIN parts = 1 .. read
  BY <1>1, PrefixOfAll DEF SoFar
<1>3. PICK S \in Examined(parts) : Conforms(request.route, parts, S)
  BY <1>1 DEF FormInv
<1>4. ASSUME StringsOnce(parts)
      PROVE  /\ input = Declared(parts)
             /\ Valid(request.route, parts) <=> Complete(request.route, input)
  <2>1. input = Declared(parts) /\ request.route \in {"images", "multimodal"}
    BY <1>1, <1>2, <1>4 DEF ReadInv, IsMultipart
  <2>2. \A i \in DOMAIN parts : PartError(request.route, parts[i]) = "none"
    BY <1>1, <1>2 DEF ReadInv
  <2> QED
    BY <1>1, <1>3, <1>4, <2>1, <2>2, AcceptedIsValid
<1>5. Len(input.images) <= MaxImages
  <2>1. input.images = Contents("images", parts)
    BY <1>1, <1>2 DEF ReadInv
  <2>2. Cardinality(Positions("images", parts)) <= MaxImages
    BY <1>3 DEF Conforms
  <2> QED
    BY <1>1, <2>1, <2>2, ContentsCounted
<1>6. \/ stage' = "enqueue" /\ Complete(request.route, input)
      \/ stage' = "answered" /\ ~Complete(request.route, input)
  BY DEF EndOfParts, Goto, Respond
<1>7. FormInv' /\ ReadInv'
  BY <1>1 DEF FormInv, ReadInv, SoFar
<1>8. ~Complete(request.route, input) => ~Valid(request.route, parts)
  BY <1>4 DEF Valid
<1> QED
  BY <1>1, <1>4, <1>5, <1>6, <1>7, <1>8 DEF InputInv, InputAsDeclared, Accepted

\* What follows the parts keeps them, and a 400 is for the URL.
LEMMA AcceptedInput ==
    ASSUME InputInv, CheckWebhook \/ StoreImages \/ Create PROVE InputInv'
<1>1. /\ stage \in Accepted /\ UNCHANGED <<parts, read, input, request>>
      /\ stage' \in Accepted \cup {"answered"}
  BY DEF CheckWebhook, StoreImages, Create, At, Goto, Respond, jobVars, Accepted
<1>2. stage' = "answered" /\ answer' = 400 => input.webhook # NoURL /\ ~URLAllowed(Target[input.webhook])
  <2>1. CASE CheckWebhook
    BY <2>1 DEF CheckWebhook, Goto, Respond
  <2>2. CASE StoreImages
    BY <2>2 DEF StoreImages, Goto, Respond
  <2>3. CASE Create
    <3>1. answer' \in {202, 500}
      BY <2>3 DEF Create, Respond
    <3> QED
      BY <3>1
  <2> QED
    BY <2>1, <2>2, <2>3
<1>3. FormInv' /\ ReadInv'
  BY <1>1 DEF InputInv, FormInv, ReadInv, SoFar
<1> QED
  BY <1>1, <1>2, <1>3 DEF InputInv, InputAsDeclared, Accepted

LEMMA ServeInput ==
    ASSUME InputInv, AnswerInv, Serve PROVE InputInv'
<1>1. CASE ReadPart
  BY <1>1, ReadPartInput DEF AnswerInv, InputOK
<1>2. CASE EndOfParts
  BY <1>2, EndOfPartsInput
<1>3. CASE CheckWebhook \/ StoreImages \/ Create
  BY <1>3, AcceptedInput
<1>4. CASE LimitBody \/ \E route, caller, scheme : Arrive(route, caller, scheme)
  <2>1. /\ stage \in {"idle", "limit"} /\ parts = <<>> /\ UNCHANGED <<parts, read, input>>
        /\ stage' \in {"limit", "authenticate", "answered"}
    BY <1>4 DEF LimitBody, Arrive, At, Goto, Respond, jobVars, InputInv, Accepted
  <2> QED
    BY <2>1, NoneIsNotValid DEF InputInv, InputAsDeclared, Accepted
<1>5. CASE Authenticate \/ Bind
  BY <1>5, AuthenticateInput, BindInput
<1>6. CASE \/ GetStatus \/ Claim \/ Notify
           \/ (\E t : PostText(t)) \/ (\E u : Report(u))
  <2>1. /\ stage \in {"handle", "notify"} /\ parts = <<>> /\ UNCHANGED <<parts, read, request>>
        /\ stage' \in {"notify", "answered"}
    BY <1>6 DEF GetStatus, Claim, Notify, PostText, Report, At, Goto, Respond, Ends, EndsByFault, jobVars,
                InputInv, Accepted
  <2> QED
    BY <2>1, NoneIsNotValid DEF InputInv, InputAsDeclared, Accepted
<1>7. CASE CallModal
  <2>1. stage = "idle" /\ stage' = "answered" /\ parts = <<>> /\ UNCHANGED <<parts, read, input>>
    BY <1>7 DEF CallModal, InputInv, Accepted, jobVars
  <2> QED
    BY <2>1, NoneIsNotValid DEF InputInv, InputAsDeclared, Accepted
<1>8. CASE Leave
  <2>1. stage' = "idle" /\ parts' = <<>> /\ read' = 0 /\ input' = Nothing /\ parts' \in Seq(Part)
    BY <1>8 DEF Leave
  <2> QED
    BY <2>1 DEF InputInv, InputAsDeclared, Accepted
<1> QED
  BY <1>1, <1>2, <1>3, <1>4, <1>5, <1>6, <1>7, <1>8 DEF Serve

LEMMA ServeEffect ==
    ASSUME InputInv, EffectInv, Serve PROVE EffectInv'
<1>1. CASE \/ LimitBody \/ Authenticate \/ Bind \/ EndOfParts \/ CheckWebhook
           \/ ReadPart \/ (\E route, caller, scheme : Arrive(route, caller, scheme))
  <2>1. /\ stage \notin {"create", "answered"} /\ stage' # "create" /\ UNCHANGED <<bucket, created>>
        /\ stage' = "answered" => answer' # 202
    BY <1>1 DEF LimitBody, Authenticate, ValidateForm, Bind, EndOfParts, CheckWebhook, ReadPart, Arrive,
                At, Goto, Respond, jobVars
  <2> QED
    BY <2>1 DEF EffectInv, AnswerTellsEffects
<1>2. CASE StoreImages
  <2>1. /\ stage = "store" /\ UNCHANGED <<input, created>>
        /\ \/ stage' = "create" /\ bucket' = Len(input.images)
           \/ stage' = "answered" /\ answer' = 500
    BY <1>2 DEF StoreImages, At, Goto, Respond
  <2> QED
    BY <2>1 DEF EffectInv, AnswerTellsEffects
<1>3. CASE Create
  <2>1. /\ stage = "create" /\ stage' = "answered" /\ UNCHANGED <<parts, input>>
        /\ \/ answer' = 202 /\ created' = TRUE /\ bucket' = bucket
           \/ answer' = 500
    BY <1>3 DEF Create, At, Respond
  <2>2. bucket = Len(Contents("images", parts))
    BY <2>1, ImagesOfParts DEF EffectInv, Accepted
  <2> QED
    BY <2>1, <2>2 DEF EffectInv, AnswerTellsEffects
<1>4. CASE (\E t : PostText(t)) \/ (\E u : Report(u)) \/ GetStatus \/ Claim \/ Notify
  <2>1. /\ stage \in {"handle", "notify"} /\ request' = request /\ bucket' = bucket
        /\ stage' = "answered" \/ (stage' = "notify" /\ created' = created)
    BY <1>4 DEF PostText, Report, GetStatus, Claim, Notify, At, Goto, Respond, Ends, EndsByFault, jobVars
  <2> QED
    BY <2>1 DEF EffectInv, AnswerTellsEffects, InputInv
<1>5. CASE CallModal
  BY <1>5 DEF CallModal, EffectInv, AnswerTellsEffects, IsMultipart, NoRequest
<1>6. CASE Leave
  BY <1>6 DEF Leave, EffectInv, AnswerTellsEffects
<1> QED
  BY <1>1, <1>2, <1>3, <1>4, <1>5, <1>6 DEF Serve

-----------------------------------------------------------------------------
(***************************************************************************)
(* The types of what a request changes.                                    *)
(***************************************************************************)
Stages == {"idle", "limit", "authenticate", "bind", "handle", "read", "notify", "answered"} \cup Accepted
AllRoutes == Routes \cup {"none", "unknown", "run_batch"}

LEMMA ServeStage ==
    ASSUME TypeOK, Serve
    PROVE  stage' \in Stages /\ answer' \in Statuses /\ request'.route \in AllRoutes
<1> USE DEF Stages, AllRoutes, Accepted, Statuses
<1>1. stage \in Stages /\ answer \in Statuses /\ request.route \in AllRoutes
  BY DEF TypeOK
<1>2. CASE LimitBody \/ Authenticate \/ Bind \/ EndOfParts \/ CheckWebhook \/ GetStatus \/ Claim
  BY <1>1, <1>2 DEF LimitBody, Authenticate, ValidateForm, Bind, EndOfParts, CheckWebhook, GetStatus, Claim, At,
                    Goto, Respond, Ends, EndsByFault
<1>3. ASSUME NEW route \in Routes \cup {"unknown"}, NEW caller, NEW scheme, Arrive(route, caller, scheme)
      PROVE  stage' \in Stages /\ answer' \in Statuses /\ request'.route \in AllRoutes
  BY <1>1, <1>3 DEF Arrive
<1>4. CASE ReadPart \/ StoreImages
  BY <1>1, <1>4 DEF ReadPart, StoreImages, Goto, Respond
<1>5. CASE Create
  <2>1. stage' = "answered" /\ request' = request /\ answer' \in {202, 500}
    BY <1>5 DEF Create, Respond
  <2> QED
    BY <1>1, <2>1
<1>6. CASE (\E t \in Texts : PostText(t)) \/ (\E u : Report(u)) \/ Notify
  BY <1>1, <1>6 DEF PostText, Report, Notify, Goto, Respond, Ends, EndsByFault
<1>7. CASE CallModal
  BY <1>1, <1>7 DEF CallModal, NoRequest
<1>8. CASE Leave
  BY <1>1, <1>8 DEF Leave, NoRequest
<1> QED
  BY <1>2, <1>3, <1>4, <1>5, <1>6, <1>7, <1>8 DEF Serve

\* No more images are put than there are parts, and no more parts read.
LEMMA ServeCounts ==
    ASSUME TypeOK, InputInv, InputInv', EffectInv, Serve
    PROVE  /\ parts' \in Bodies \cup {<<>>} /\ read' \in 0 .. Len(parts')
           /\ bucket' \in 0 .. Len(parts')
<1>0. /\ parts \in Seq(Part) /\ parts' \in Seq(Part) /\ Len(parts) \in Nat /\ Len(parts') \in Nat
      /\ parts \in Bodies \cup {<<>>} /\ bucket \in 0 .. Len(parts)
      /\ read' \in 0 .. Len(parts')
  BY DEF TypeOK, InputInv
<1>1. CASE Authenticate
  <2>1. bucket' = 0 /\ parts' \in Bodies \cup {<<>>}
    <3>1. stage = "authenticate" /\ bucket' = bucket
      BY <1>1 DEF Authenticate, At
    <3>2. parts' = parts \/ parts' \in Bodies
      BY <1>1 DEF Authenticate, ValidateForm
    <3> QED
      BY <1>0, <3>1, <3>2 DEF EffectInv
  <2> QED
    BY <1>0, <2>1
<1>2. CASE StoreImages \/ Create
  <2>1. stage \in {"store", "create"} /\ parts' = parts
    BY <1>2 DEF StoreImages, Create, At
  <2>2. Len(input.images) \in 0 .. Len(parts)
    BY <2>1, ImagesOfParts DEF Accepted
  <2>3. bucket' \in 0 .. Len(input.images) \/ bucket' \in 0 .. bucket \/ bucket' = bucket
    <3>1. CASE StoreImages
      BY <3>1, <2>2 DEF StoreImages
    <3>2. CASE Create
      BY <3>2 DEF Create
    <3> QED
      BY <1>2, <3>1, <3>2
  <2> QED
    BY <1>0, <2>1, <2>2, <2>3
<1>3. CASE Leave
  BY <1>0, <1>3 DEF Leave
<1>4. CASE \/ LimitBody \/ Bind \/ ReadPart \/ EndOfParts \/ CheckWebhook \/ GetStatus \/ Claim
           \/ Notify \/ CallModal \/ (\E route, caller, scheme : Arrive(route, caller, scheme))
           \/ (\E t : PostText(t)) \/ (\E u : Report(u))
  <2>1. UNCHANGED <<parts, bucket>>
    BY <1>4 DEF LimitBody, Bind, ReadPart, EndOfParts, CheckWebhook, GetStatus, Claim, Notify,
                CallModal, Arrive, PostText, Report, jobVars
  <2> QED
    BY <1>0, <2>1
<1> QED
  BY <1>1, <1>2, <1>3, <1>4 DEF Serve

LEMMA ServeTarget ==
    ASSUME TypeOK, Serve PROVE target' \in Addresses \cup {NoAddress}
<1>0. target \in Addresses \cup {NoAddress}
  BY DEF TypeOK
<1>1. CASE Notify
  BY <1>0, <1>1 DEF Notify
<1>2. CASE Leave
  BY <1>2 DEF Leave
<1>3. CASE ~(Notify \/ Leave)
  <2>1. target' = target
    BY <1>3 DEF Serve, Arrive, LimitBody, Authenticate, ValidateForm, Bind, ReadPart, EndOfParts,
                CheckWebhook, StoreImages, Create, PostText, GetStatus, Claim, Report, CallModal, Goto, Respond,
                Ends, EndsByFault
  <2> QED
    BY <1>0, <2>1
<1> QED
  BY <1>1, <1>2, <1>3

LEMMA ServeFault ==
    ASSUME TypeOK, Serve PROVE fault' \in BOOLEAN
<1>0. fault \in BOOLEAN
  BY DEF TypeOK
<1>1. fault' = fault \/ fault' = TRUE \/ fault' = FALSE
  BY DEF Serve, Arrive, LimitBody, Authenticate, Bind, ReadPart, EndOfParts, CheckWebhook,
         StoreImages, Create, PostText, GetStatus, Claim, Report, CallModal, Notify, Leave,
         Ends, EndsByFault, Fails
<1> QED
  BY <1>0, <1>1

LEMMA ServeCreated ==
    ASSUME TypeOK, Serve PROVE created' \in BOOLEAN
<1>0. created \in BOOLEAN
  BY DEF TypeOK
<1>1. CASE Create
  <2>1. created' = TRUE \/ created' \in {FALSE, Storable(input.text, input.webhook)}
    BY <1>1 DEF Create
  <2>2. Storable(input.text, input.webhook) \in BOOLEAN
    BY DEF Storable
  <2> QED
    BY <2>1, <2>2
<1>2. CASE \E t \in Texts : PostText(t)
  <2>1. created' = created \/ created' = TRUE \/ created' \in BOOLEAN
    BY <1>2 DEF PostText
  <2> QED
    BY <1>0, <2>1
<1>3. CASE ~(Create \/ \E t \in Texts : PostText(t))
  <2>1. created' = created \/ created' = FALSE
    BY <1>3 DEF Serve, Arrive, LimitBody, Authenticate, Bind, ReadPart, EndOfParts, CheckWebhook,
                StoreImages, GetStatus, Claim, Report, CallModal, Notify, Leave, jobVars
  <2> QED
    BY <1>0, <2>1
<1> QED
  BY <1>1, <1>2, <1>3

LEMMA ServeTyped ==
    ASSUME TypeOK, AnswerInv, InputInv, InputInv', EffectInv, Serve PROVE TypeOK'
<1>1. DOMAIN input' = {"text", "images", "webhook"}
  BY ServeAnswer DEF AnswerInv
<1>2. UNCHANGED <<phase, env, config, done, loops>>
  BY ServeKeepsProcess DEF processVars
<1> QED
  BY <1>1, <1>2, ServeStage, ServeCounts, ServeTarget, ServeFault, ServeCreated
     DEF TypeOK, Stages, AllRoutes

LEMMA InductiveStep == Inductive /\ [Next]_vars => Inductive'
<1> SUFFICES ASSUME Inductive, [Next]_vars PROVE Inductive'
  OBVIOUS
<1>1. CASE ProcessStep
  BY <1>1, ProcessInductive
<1>2. CASE Serve
  BY <1>2, ServePhase, ServeAccess, ServeAnswer, ServeRefused, ServeInput, ServeEffect, ServeTyped
     DEF Inductive
<1>3. CASE Restart
  BY <1>3, RestartStep
<1>4. CASE UNCHANGED vars
  <2>1. UNCHANGED <<phase, env, config, done, loops, stage, request, parts, read, input, bucket, created,
                    target, answer, fault>>
    BY <1>4 DEF vars, processVars, requestVars, jobVars
  <2>2. PhaseInv'
    BY <2>1 DEF Inductive, PhaseInv, GoroutinesEnd
  <2>3. AccessInv'
    BY <2>1 DEF Inductive, AccessInv, HeaderOf, Authenticated
  <2>4. AnswerInv'
    BY <2>1 DEF Inductive, AnswerInv, ServerErrorsExplained, DeliveredToPublic
  <2>5. RefusedInv'
    BY <2>1 DEF Inductive, RefusedInv, HeaderOf, Authenticated
  <2>6. InputInv' /\ EffectInv'
    BY <2>1 DEF Inductive, InputInv, FormInv, ReadInv, SoFar, InputAsDeclared, EffectInv, AnswerTellsEffects
  <2>7. TypeOK'
    BY <2>1 DEF Inductive, TypeOK
  <2> QED
    BY <2>2, <2>3, <2>4, <2>5, <2>6, <2>7 DEF Inductive
<1> QED
  BY <1>1, <1>2, <1>3, <1>4 DEF Next, ProcessStep

-----------------------------------------------------------------------------
(***************************************************************************)
(* Two keys that Load lets through open one side each.                      *)
(***************************************************************************)
LEMMA OneSideEach ==
    ASSUME NEW e \in Environments, NEW cfg \in Load(e), NEW route, NEW header,
           Authenticated(cfg, route, header), ~cfg.disabled,
           NEW scheme \in {"Bearer", "Basic"}, NEW side \in {"internal", "external"},
           header = <<scheme>> \o (IF side = "internal" THEN cfg.internal.fields
                                   ELSE cfg.external.fields)
    PROVE  side = SchemeOf(route)
<1> DEFINE key == IF side = "internal" THEN cfg.internal ELSE cfg.external
<1>1. /\ e \in [appEnv : Values, disabled : BOOLEAN, external : Values, internal : Values]
      /\ cfg = Trimmed(e) /\ ~Unsafe(cfg)
  BY ApiServerAssumption DEF Load
<1>2. /\ cfg.internal \in Values /\ cfg.external \in Values
      /\ ~cfg.internal.padded /\ ~cfg.external.padded
      /\ cfg.external # cfg.internal
  BY <1>1 DEF Trimmed, Trim, Values, Unsafe
<1>3. key \in Values /\ ~key.padded /\ header = <<scheme>> \o key.fields
  BY <1>2
<1>4. Len(header) = 2
      /\ Word(header[2]) = IF SchemeOf(route) = "internal" THEN cfg.internal ELSE cfg.external
  BY DEF Authenticated, IsBearer
<1>5. key = Word(header[2])
  <2>1. key.fields \in Seq(STRING) /\ key = [fields |-> key.fields, padded |-> FALSE]
    BY <1>3 DEF Values
  <2>2. Len(key.fields) = 1 /\ key.fields[1] = header[2]
    BY <1>3, <1>4, <2>1
  <2>3. key.fields = <<header[2]>>
    BY <2>1, <2>2
  <2> QED
    BY <2>1, <2>3 DEF Word
<1> QED
  BY <1>2, <1>4, <1>5 DEF SchemeOf

LEMMA SidesFollow == Inductive => SidesApart
<1> SUFFICES ASSUME Inductive, stage \in Behind
             PROVE  \/ request.caller = IF SchemeOf(request.route) = "internal"
                                        THEN "worker" ELSE "client"
                    \/ config.disabled
                       /\ ~(env.appEnv.fields \in {<<"production">>, <<"Production">>})
  BY DEF SidesApart, Behind
<1>1. /\ env \in Environments /\ config \in Load(env)
      /\ request.caller \in Callers
      /\ Authenticated(config, request.route, request.header)
  BY DEF Inductive, PhaseInv, AccessInv, Behind, Accepted
<1>2. PICK scheme \in {"Bearer", "Basic"} : request.header = HeaderOf(request.caller, scheme)
  BY DEF Inductive, AccessInv
<1>3. CASE config.disabled
  <2>1. /\ env.appEnv \in Values /\ env \in [appEnv : Values, disabled : BOOLEAN, external : Values, internal : Values]
        /\ config = Trimmed(env) /\ ~Unsafe(config)
    BY <1>1, ApiServerAssumption DEF Load
  <2>2. config.appEnv = [fields |-> env.appEnv.fields, padded |-> FALSE]
    BY <2>1 DEF Trimmed, Trim, Values
  <2>3. ~IsProduction(config.appEnv)
    BY <1>3, <2>1 DEF Unsafe
  <2> QED
    BY <1>3, <2>2, <2>3 DEF IsProduction, Word
<1>4. CASE ~config.disabled
  <2>1. CASE request.caller = "worker"
    <3>1. request.header = <<scheme>> \o config.internal.fields
      BY <1>2, <2>1 DEF HeaderOf
    <3> QED
      BY <1>1, <1>4, <2>1, <3>1, OneSideEach
  <2>2. CASE request.caller = "client"
    <3>1. request.header = <<scheme>> \o config.external.fields
      BY <1>2, <2>2 DEF HeaderOf
    <3> QED
      BY <1>1, <1>4, <2>2, <3>1, OneSideEach
  <2>3. request.caller # "stranger"
    <3>1. ASSUME request.caller = "stranger" PROVE request.header = <<scheme>> \o <<>>
      BY <1>2, <3>1 DEF HeaderOf
    <3> QED
      BY <1>1, <1>4, <3>1 DEF Authenticated, IsBearer
  <2> QED
    BY <1>1, <2>1, <2>2, <2>3 DEF Callers
<1> QED
  BY <1>3, <1>4

\* With the word "Bearer" a key of one field opens the side it is the key of.
LEMMA KeyOpensItsSide ==
    ASSUME NEW cfg, NEW route, NEW key \in Values, ~key.padded,
           key = (IF SchemeOf(route) = "internal" THEN cfg.internal ELSE cfg.external),
           NEW scheme \in {"Bearer", "Basic"}, NEW header, header = <<scheme>> \o key.fields,
           Len(header) = 2, header[1] # "Basic"
    PROVE  Authenticated(cfg, route, header)
<1>1. key.fields \in Seq(STRING) /\ key = [fields |-> key.fields, padded |-> FALSE]
  BY DEF Values
<1>2. header[1] = scheme /\ Len(key.fields) = 1 /\ key.fields[1] = header[2]
  BY <1>1
<1>3. key.fields = <<header[2]>>
  BY <1>1, <1>2
<1> QED
  BY <1>1, <1>2, <1>3 DEF Authenticated, IsBearer, Word

LEMMA KeysFollow == Inductive => KeysOpen
<1> SUFFICES ASSUME Inductive, answer = 401,
                    request.caller # "stranger", request.header[1] # "Basic",
                    Len(request.header) = 2,
                    request.caller = "client" => SchemeOf(request.route) # "internal",
                    request.caller = "worker" => SchemeOf(request.route) # "external"
             PROVE  FALSE
  BY DEF KeysOpen, Inductive, RefusedInv
<1>1. /\ ~Authenticated(config, request.route, request.header)
      /\ request.caller \in {"client", "worker"}
      /\ config \in Load(env) /\ env \in Environments
  BY DEF Inductive, RefusedInv, PhaseInv, AnswerInv, Callers
<1>2. PICK scheme \in {"Bearer", "Basic"} : request.header = HeaderOf(request.caller, scheme)
  BY DEF Inductive, RefusedInv
<1>3. config = Trimmed(env)
  BY <1>1, Loaded
<1>4. /\ config.internal \in Values /\ config.external \in Values
      /\ ~config.internal.padded /\ ~config.external.padded
  BY <1>1, <1>3, ApiServerAssumption DEF Trimmed, Trim, Values
<1>5. CASE request.caller = "client"
  <2>1. request.header = <<scheme>> \o config.external.fields
    BY <1>2, <1>5 DEF HeaderOf
  <2> QED
    BY <1>1, <1>4, <1>5, <2>1, KeyOpensItsSide
<1>6. CASE request.caller = "worker"
  <2>1. request.header = <<scheme>> \o config.internal.fields
    BY <1>2, <1>6 DEF HeaderOf
  <2>2. SchemeOf(request.route) = "internal"
    BY <1>6 DEF SchemeOf
  <2> QED
    BY <1>1, <1>4, <2>1, <2>2, KeyOpensItsSide
<1> QED
  BY <1>1, <1>5, <1>6

-----------------------------------------------------------------------------
\* Every reachable state satisfies the invariant that the rest follows from.
THEOREM InductiveInvariant == Spec => []Inductive
BY InitInductive, InductiveStep, PTL DEF Spec

\* Every variable has its type: no answer but those of openapi.yaml and of the
\* middleware, no more images in the bucket than there were parts.
THEOREM TypeCorrect == Spec => []TypeOK
<1>1. Inductive => TypeOK
  BY DEF Inductive
<1> QED
  BY <1>1, InductiveInvariant, PTL

\* The validator, ReadEmbeddingInput and enqueueJob: of forms that give no string twice
\* exactly the valid ones are accepted, as what they declare, but for those with a URL
\* that is refused, and none brings more than MaxImages images, for any forms of any
\* number of parts, any limits and whatever repeated strings the validator looks at.
THEOREM InputsAreDeclared == Spec => []InputAsDeclared
<1>1. Inductive => InputAsDeclared
  <2>1. InputInv => InputAsDeclared
    BY DEF InputInv
  <2> QED
    BY <2>1 DEF Inductive
<1> QED
  BY <1>1, InductiveInvariant, PTL

\* enqueueJob, StoreJobImages, CreateJob: a 202 has its row and every image of its
\* parts, a request that was refused has left neither.
THEOREM AnswersTellEffects == Spec => []AnswerTellsEffects
<1>1. Inductive => AnswerTellsEffects
  BY DEF Inductive, EffectInv
<1> QED
  BY <1>1, InductiveInvariant, PTL

\* config.Load and apiKeyAuthenticationFunc: only the holder of the key of a side
\* gets to its handlers, for any pair of keys however they are written, and the
\* check is never disabled in production.
THEOREM SidesAreApart == Spec => []SidesApart
BY SidesFollow, InductiveInvariant, PTL

\* config.Load, apiKeyAuthenticationFunc, MaybeTrigger and valid_bearer_token:
\* whoever was given a key without white space inside it gets in with it.
THEOREM KeysAreEnough == Spec => []KeysOpen
BY KeysFollow, InductiveInvariant, PTL

\* A 500 means that something behind the server failed, or a text or URL that
\* PostgreSQL cannot store, which leaves no row, for any forms and any URLs.
THEOREM ServerErrorsAreExplained == Spec => []ServerErrorsExplained
<1>1. Inductive => ServerErrorsExplained
  BY DEF Inductive, AnswerInv
<1> QED
  BY <1>1, InductiveInvariant, PTL

\* webhookTransport: a webhook reaches only public addresses, for any URLs and any
\* addresses that DNS may answer with.
THEOREM WebhooksReachPublic == Spec => []DeliveredToPublic
<1>1. Inductive => DeliveredToPublic
  BY DEF Inductive, AnswerInv
<1> QED
  BY <1>1, InductiveInvariant, PTL

\* main.run: when it has returned, the goroutines it started have ended.
THEOREM GoroutinesHaveEnded == Spec => []GoroutinesEnd
<1>1. Inductive => GoroutinesEnd
  BY DEF Inductive, PhaseInv
<1> QED
  BY <1>1, InductiveInvariant, PTL
=============================================================================
