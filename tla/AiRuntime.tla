------------------------------- MODULE AiRuntime -------------------------------
(***************************************************************************)
(* Calls to the AI provider: the settings that may change at any moment,   *)
(* the provider object the server keeps for them, the capabilities each    *)
(* call reads first, with the cache that stands in for them, the retries   *)
(* of the executor, the probes of the gateway, and hibernation.            *)
(***************************************************************************)
EXTENDS Integers, Sequences

CONSTANTS
  AiCalls,       \* the calls of a behaviour
  FirstSettings, \* the settings it begins with: [base, model, key, retries]
  Patches,       \* what a PUT of the settings changes
  Snapshots,     \* capabilities the providers may state: [image, file, count, json]
  Contents,      \* what calls send, in the same sizes
  MaxPatches,    \* PUTs of a behaviour
  MostRetries    \* the most the executor accepts

\* What a setting may be: as the behaviour begins, and by any PUT.
Values(f) == {s[f] : s \in FirstSettings} \cup {p[f] : p \in {q \in Patches : f \in DOMAIN q}}

Settings == [base : Values("base"), model : Values("model"), key : Values("key"), retries : Values("retries")]

ASSUME AiAssumption ==
  /\ FirstSettings \subseteq Settings /\ Values("retries") \subseteq Nat
  /\ MaxPatches \in Nat /\ MostRetries \in Nat

VARIABLES aiSettings, aiProvider, capabilityCache, aiCalls, probeRecords, gatewayOpen, hibernateTimer, hibernated, patches

aiVars == <<aiSettings, aiProvider, capabilityCache, aiCalls, probeRecords, gatewayOpen, hibernateTimer, hibernated, patches>>

Unset      == "unset"
NoIdentity == [base |-> Unset, model |-> Unset, key |-> Unset]
NoLimits   == [image |-> 0, file |-> 0, count |-> 0, json |-> 0]
NotAsked   == [kind |-> "not asked"]

ProviderIdentity(s) == [base |-> s.base, model |-> s.model, key |-> s.key]
AiConfigured(s)     == s.base # Unset /\ s.model # Unset

\* mergeRuntimeSettings: what the patch names, and the rest as it was.
MergeRuntimeSettings(s, patch) == [f \in DOMAIN s |-> IF f \in DOMAIN patch THEN patch[f] ELSE s[f]]

\* Mutant: the address and the key may change under the object.
SameModel(id, kept) == id.model = kept.model

IsCurrent(id, kept) == id = kept

GetAiProvider(id) == IF IsCurrent(id, aiProvider) THEN aiProvider ELSE id

\* What the provider may answer: to the read of its capabilities, and to a request.  A
\* failure says whether it may be retried and, some of them, that the request must not be
\* sent again.
Failure(code, retryable, unsafe) == [kind |-> "failure", code |-> code, retryable |-> retryable, unsafe |-> unsafe]

\* mapProviderHttpError, by status and by the code in the body.
MapProviderHttpError(status, code, unsafe) ==
  CASE code = "attachment_upload_failed"   -> Failure("AI_ATTACHMENT_UPLOAD_FAILED", status \in {503, 504}, unsafe)
    [] code = "attachment_upload_rejected" -> Failure("AI_REQUEST_REJECTED", FALSE, unsafe)
    [] OTHER ->
         CASE status \in {401, 403} -> Failure("AI_AUTHENTICATION_FAILED", FALSE, unsafe)
           [] status \in {408, 504} -> Failure("AI_TIMEOUT", TRUE, unsafe)
           [] status = 413          -> Failure("AI_ATTACHMENT_TOO_LARGE", FALSE, unsafe)
           [] status = 429          -> Failure("AI_RATE_LIMITED", TRUE, unsafe)
           [] status >= 500 /\ status # 504 -> Failure("AI_PROVIDER_FAILED", TRUE, unsafe)
           [] OTHER                 -> Failure("AI_REQUEST_REJECTED", FALSE, unsafe)

Unreachable  == Failure("AI_UNREACHABLE", TRUE, FALSE)
TooLarge     == Failure("AI_ATTACHMENT_TOO_LARGE", FALSE, FALSE)
AbortFailure == Failure("AbortError", FALSE, FALSE)

HttpFailures ==
  {MapProviderHttpError(400, "none", FALSE), MapProviderHttpError(503, "none", FALSE), MapProviderHttpError(503, "none", TRUE),
   MapProviderHttpError(503, "attachment_upload_failed", FALSE)}

\* A request ends well or fails; an empty answer and one the schema refuses may be asked for again.
RequestAnswers == HttpFailures \cup {[kind |-> "answer"], Failure("AI_EMPTY_RESPONSE", TRUE, FALSE)}

\* A probe asks for the words of a picture: they may be others, or not in the form asked for.
ProbeFailures(kind) ==
  IF kind \in {"startup", "manual"} THEN {Failure("AI_PROBE_TEXT_MISMATCH", FALSE, FALSE)} ELSE {}

CapabilityAnswers(base) ==
  {[kind |-> "limits", from |-> base, limits |-> l] : l \in Snapshots}
    \cup {[kind |-> k] : k \in {"invalid", "missing", "denied", "busy", "lost"}}

Recall(id) == IF id = NoIdentity THEN NotAsked ELSE capabilityCache[<<id.base, id.model>>]

\* The cache stands in for an answer that is missing, broken or late, but not for a refusal.
StandIn(answer, id) ==
  IF answer.kind \in {"invalid", "missing", "busy", "lost"} /\ Recall(id).kind = "limits" THEN Recall(id) ELSE answer

Fits(content, l) ==
  /\ content.image <= l.image /\ content.file <= l.file /\ content.count <= l.count /\ content.json <= l.json

NoCallYet ==
  [phase |-> "none", kind |-> "none", by |-> NoIdentity, wanted |-> NoIdentity, retries |-> 0, attempt |-> 0, cacheAs |-> NoIdentity, content |-> NoLimits,
   aborted |-> FALSE, posts |-> 0, afterUnsafe |-> 0, unsafe |-> FALSE, outcome |-> "none", limits |-> NotAsked, refusal |-> FALSE]

AiInit ==
  /\ aiSettings \in FirstSettings /\ aiProvider = NoIdentity
  /\ capabilityCache = [k \in Values("base") \X Values("model") |-> NotAsked]
  /\ aiCalls = [c \in AiCalls |-> NoCallYet] /\ probeRecords = <<>> /\ gatewayOpen = TRUE
  /\ hibernateTimer = TRUE /\ hibernated = FALSE /\ patches = 0

--------------------------------------------------------------------------------

UnderWay(c) == aiCalls[c].phase \in {"ready", "capabilities", "request"}
PendingOperations    == {c \in AiCalls : UnderWay(c) /\ aiCalls[c].kind = "operation"}

\* Of a call that has ended only its outcome is kept, and whether its key was rejected.
Over(call, outcome) == [NoCallYet EXCEPT !.phase = "over", !.kind = call.kind, !.outcome = outcome, !.refusal = call.refusal]

\* Every request of the application wakes the server and sets the timer again.
MarkActivity == hibernated' = FALSE /\ hibernateTimer' = TRUE

\* PUT /api/v1/settings/runtime.
UpdateRuntimeSettings(patch) ==
  /\ gatewayOpen /\ patches < MaxPatches
  /\ aiSettings' = MergeRuntimeSettings(aiSettings, patch) /\ patches' = patches + 1 /\ MarkActivity
  /\ UNCHANGED <<aiProvider, capabilityCache, aiCalls, probeRecords, gatewayOpen>>

Begin(c, kind, content) ==
  [NoCallYet EXCEPT !.phase = "ready", !.kind = kind, !.by = ProviderIdentity(aiSettings), !.wanted = ProviderIdentity(aiSettings),
                    !.retries = IF kind = "operation" THEN aiSettings.retries ELSE 0, !.content = content]

\* A page, a photo or a list: the provider object and the retries are taken together.
StartOperation(c, content) ==
  /\ gatewayOpen /\ aiCalls[c] = NoCallYet
  /\ IF ~AiConfigured(aiSettings)
       THEN /\ aiCalls' = [aiCalls EXCEPT ![c] = Over(NoCallYet, "AI_NOT_CONFIGURED")]
            /\ UNCHANGED aiProvider
       ELSE /\ aiProvider' = GetAiProvider(ProviderIdentity(aiSettings))
            /\ aiCalls' = [aiCalls EXCEPT ![c] = IF aiSettings.retries > MostRetries
                 THEN Over(NoCallYet, "RangeError")
                 ELSE [Begin(c, "operation", content) EXCEPT !.by = aiProvider']]
  /\ MarkActivity
  /\ UNCHANGED <<aiSettings, capabilityCache, probeRecords, gatewayOpen, patches>>

\* The probes of the gateway and its route for the limits have a provider of their own.
StartProbe(c, kind) ==
  /\ gatewayOpen /\ aiCalls[c] = NoCallYet
  /\ IF AiConfigured(aiSettings)
       THEN /\ aiCalls' = [aiCalls EXCEPT ![c] = Begin(c, kind, [NoLimits EXCEPT !.image = 1, !.count = 1])]
            /\ UNCHANGED probeRecords
       ELSE /\ aiCalls' = [aiCalls EXCEPT ![c] = Over([NoCallYet EXCEPT !.kind = kind], "AI_NOT_CONFIGURED")]
            /\ probeRecords' = Append(probeRecords, [status |-> "AI_NOT_CONFIGURED", asked |-> FALSE, aborted |-> FALSE])
  /\ UNCHANGED <<aiSettings, aiProvider, capabilityCache, gatewayOpen, hibernateTimer, hibernated, patches>>

ReadLimits(c) ==
  /\ gatewayOpen /\ aiCalls[c] = NoCallYet
  /\ aiCalls' = [aiCalls EXCEPT ![c] = IF AiConfigured(aiSettings) THEN Begin(c, "limits", NoLimits)
                                       ELSE Over([NoCallYet EXCEPT !.kind = "limits"], "AI_NOT_CONFIGURED")]
  /\ UNCHANGED <<aiSettings, aiProvider, capabilityCache, probeRecords, gatewayOpen, hibernateTimer, hibernated, patches>>

\* The read of the capabilities: the cache looks at the settings of this moment, and only when
\* the address is theirs.
BeginAttempt(c) ==
  /\ aiCalls[c].phase = "ready"
  /\ aiCalls' = [aiCalls EXCEPT ![c].phase = "capabilities", ![c].attempt = @ + 1,
                                ![c].cacheAs = IF AiConfigured(aiSettings) /\ aiSettings.base = aiCalls[c].by.base
                                                 THEN ProviderIdentity(aiSettings) ELSE NoIdentity]
  /\ UNCHANGED <<aiSettings, aiProvider, capabilityCache, probeRecords, gatewayOpen, hibernateTimer, hibernated, patches>>

ProbeRecord(call, status) == [status |-> status, asked |-> call.posts > 0 \/ call.refusal, aborted |-> call.aborted]

\* The end of a call; a probe that was not given up is recorded.
Recorded(call, status) ==
  IF call.kind \in {"startup", "manual"} /\ status # "AbortError" THEN Append(probeRecords, ProbeRecord(call, status)) ELSE probeRecords

MayTryAgain(call, f) == f.retryable /\ ~f.unsafe /\ call.attempt <= call.retries

\* An attempt has failed: the same request once more, or the failure for the caller.
Fail(c, call, f) ==
  LET failed == [call EXCEPT !.unsafe = @ \/ f.unsafe] IN
  IF MayTryAgain(failed, f)
    THEN aiCalls' = [aiCalls EXCEPT ![c] = [failed EXCEPT !.phase = "ready"]] /\ UNCHANGED probeRecords
    ELSE /\ aiCalls' = [aiCalls EXCEPT ![c] = Over(failed, f.code)]
         /\ probeRecords' = Recorded(failed, f.code)

Succeed(c, call) ==
  /\ aiCalls' = [aiCalls EXCEPT ![c] = Over(call, "ok")]
  /\ probeRecords' = Recorded(call, "ok")

CapabilitiesAnswered(c, answer) ==
  LET call == aiCalls[c]
      used == StandIn(answer, call.cacheAs)
      next == [call EXCEPT !.limits = used, !.refusal = @ \/ answer.kind = "denied"] IN
  /\ call.phase = "capabilities" /\ ~call.aborted
  /\ capabilityCache' = IF answer.kind = "limits" /\ call.cacheAs # NoIdentity
                          THEN [capabilityCache EXCEPT ![<<call.cacheAs.base, call.cacheAs.model>>] = answer] ELSE capabilityCache
  /\ CASE used.kind = "denied" -> Fail(c, next, MapProviderHttpError(401, "none", FALSE))
       [] used.kind = "busy"   -> Fail(c, next, MapProviderHttpError(503, "none", FALSE))
       [] used.kind = "lost"   -> Fail(c, next, Unreachable)
       [] call.kind = "limits" /\ used.kind \notin {"denied", "busy", "lost"} ->
            IF used.kind = "limits" THEN Succeed(c, next) ELSE Fail(c, next, Failure("AI_CAPABILITIES_UNAVAILABLE", FALSE, FALSE))
       [] call.kind # "limits" /\ used.kind = "limits" /\ ~Fits(call.content, used.limits) -> Fail(c, next, TooLarge)
       [] OTHER -> /\ aiCalls' = [aiCalls EXCEPT ![c] = [next EXCEPT !.phase = "request", !.posts = @ + 1,
                                                              !.afterUnsafe = @ + IF call.unsafe THEN 1 ELSE 0]]
                   /\ UNCHANGED probeRecords
  /\ UNCHANGED <<aiSettings, aiProvider, gatewayOpen, hibernateTimer, hibernated, patches>>

RequestAnswered(c, answer) ==
  LET call == aiCalls[c] IN
  /\ call.phase = "request" /\ ~call.aborted
  /\ IF answer.kind = "answer" THEN Succeed(c, call) ELSE Fail(c, call, answer)
  /\ UNCHANGED <<aiSettings, aiProvider, capabilityCache, gatewayOpen, hibernateTimer, hibernated, patches>>

\* The caller goes away: what is under way is given up, and the executor stops.
CallerLeaves(c) ==
  /\ UnderWay(c) /\ ~aiCalls[c].aborted /\ aiCalls[c].kind # "startup" /\ aiCalls[c].kind # "limits"
  /\ aiCalls' = [aiCalls EXCEPT ![c].aborted = TRUE]
  /\ UNCHANGED <<aiSettings, aiProvider, capabilityCache, probeRecords, gatewayOpen, hibernateTimer, hibernated, patches>>

GivenUp(c) ==
  /\ UnderWay(c) /\ aiCalls[c].aborted
  /\ Fail(c, aiCalls[c], AbortFailure)
  /\ UNCHANGED <<aiSettings, aiProvider, capabilityCache, gatewayOpen, hibernateTimer, hibernated, patches>>

\* The gateway closes: the probe of the start is given up, and requests are waited for.
CloseGateway ==
  /\ gatewayOpen /\ gatewayOpen' = FALSE
  /\ aiCalls' = [c \in AiCalls |-> IF UnderWay(c) /\ aiCalls[c].kind = "startup" THEN [aiCalls[c] EXCEPT !.aborted = TRUE] ELSE aiCalls[c]]
  /\ UNCHANGED <<aiSettings, aiProvider, capabilityCache, probeRecords, hibernateTimer, hibernated, patches>>

\* The timer fires once; it is the next request that sets it again.
HibernateTimerFires ==
  /\ hibernateTimer /\ hibernateTimer' = FALSE
  /\ IF PendingOperations = {} THEN hibernated' = TRUE /\ aiProvider' = NoIdentity ELSE UNCHANGED <<hibernated, aiProvider>>
  /\ UNCHANGED <<aiSettings, capabilityCache, aiCalls, probeRecords, gatewayOpen, patches>>

AiNext ==
  \/ \E p \in Patches : UpdateRuntimeSettings(p)
  \/ \E c \in AiCalls :
       \/ \E k \in {"startup", "manual"} : StartProbe(c, k)
       \/ ReadLimits(c)
       \/ \E content \in Contents : StartOperation(c, content)
       \/ BeginAttempt(c) \/ CallerLeaves(c) \/ GivenUp(c)
       \/ \E a \in CapabilityAnswers(aiCalls[c].by.base) : CapabilitiesAnswered(c, a)
       \/ \E a \in RequestAnswers \cup ProbeFailures(aiCalls[c].kind) : RequestAnswered(c, a)
  \/ CloseGateway \/ HibernateTimerFires

AiSpec == AiInit /\ [][AiNext]_aiVars

--------------------------------------------------------------------------------

AiTypeOK ==
  /\ aiSettings \in Settings /\ patches \in 0 .. MaxPatches
  /\ \A c \in AiCalls : aiCalls[c].phase \in {"none", "ready", "capabilities", "request", "over"}
  /\ gatewayOpen \in BOOLEAN /\ hibernateTimer \in BOOLEAN /\ hibernated \in BOOLEAN

\* A request the provider said must not be sent again is not, and no call sends more often
\* than the retries it began with allow, whatever is saved meanwhile (isOriginalRequestRetryAllowed).
RetriesAreBounded ==
  \A c \in AiCalls : aiCalls[c].afterUnsafe = 0 /\ aiCalls[c].posts <= aiCalls[c].retries + 1 /\ aiCalls[c].attempt <= aiCalls[c].retries + 1

\* Limits kept for a provider are what that address answered, though the settings may change
\* between the call and its answer (installAiRuntimeCapabilitiesCache).
CacheIsOfItsProvider ==
  \A k \in DOMAIN capabilityCache : capabilityCache[k].kind = "limits" => capabilityCache[k].from = k[1]

\* "Authentication failures are never hidden by the fallback", README.md:50: nothing is sent
\* after a key was rejected; and what is sent fits the limits that were read or recalled.
RefusalsAreNotHidden ==
  \A c \in AiCalls :
    /\ aiCalls[c].refusal => aiCalls[c].outcome = "AI_AUTHENTICATION_FAILED"
    /\ aiCalls[c].phase = "request" /\ aiCalls[c].limits.kind = "limits" =>
         aiCalls[c].limits.from = aiCalls[c].by.base /\ Fits(aiCalls[c].content, aiCalls[c].limits.limits)

\* The last check of the settings page is an answer of a provider, or that none is configured,
\* and never a probe that was given up by a leaving client or a closing server.
ChecksAreAnswers ==
  \A n \in DOMAIN probeRecords :
    /\ ~probeRecords[n].aborted
    /\ probeRecords[n].status = "ok" => probeRecords[n].asked

\* "Newly saved settings apply to the next operation", README.md:163: a call goes to the
\* provider that was saved when it began, with its key and its model (getAiProvider).
SavedSettingsApply == \A c \in AiCalls : UnderWay(c) => aiCalls[c].by = aiCalls[c].wanted

\* The server sleeps only while no request of the application waits for a provider.
HibernatesIdle == hibernated => PendingOperations = {}

\* What holds of the calls to the provider.
AiSound ==
  /\ AiTypeOK
  /\ RetriesAreBounded /\ CacheIsOfItsProvider /\ RefusalsAreNotHidden
  /\ ChecksAreAnswers /\ SavedSettingsApply /\ HibernatesIdle

\* What the settings accept the executor accepts: "newly saved settings apply to the next
\* operation", README.md:163.
SavedRetriesAreUsable == \A c \in AiCalls : aiCalls[c].outcome # "RangeError"
================================================================================
