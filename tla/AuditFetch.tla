----------------------------- MODULE AuditFetch -----------------------------
(***************************************************************************)
(* What one audit asks of the network: the page, then robots.txt and       *)
(* sitemap.xml side by side, then the performance provider.                *)
(*                                                                         *)
(*   src/lib/safeAuditFetch.ts        one fetch: redirects, the pinned     *)
(*                                    address, the bounded body            *)
(*   src/lib/seo-file-evidence.ts     the two probes                       *)
(*   src/lib/performance-evidence.ts  the provider                         *)
(*   src/worker/audit.handler.ts      what awaits them, in this order      *)
(*                                                                         *)
(* The worker hands the handler a signal, which it aborts when the job's   *)
(* time is over, the lease is lost or the process is to stop.  A step is   *)
(* what runs between two awaits that really wait; a fetch that ends and    *)
(* the code that awaits it go on in the same step.  A body is a number of  *)
(* chunks.  An encoded body is read through a decoder the response is      *)
(* piped to, which does not hear of the end of a response that is cut off, *)
(* and which may be through with its own format before the response is.    *)
(***************************************************************************)
EXTENDS Naturals

CONSTANTS
    Names,         \* host names
    Public,        \* addresses an audit may go to
    Private,       \* addresses it may not
    MaxRedirects,  \* maxRedirects
    MaxBytes       \* maxResponseBytes, in chunks

ASSUME AddressAssumption == /\ Public \cap Private = {}
                            /\ Names \cap (Public \cup Private) = {}
ASSUME LimitAssumption   == MaxRedirects \in Nat /\ MaxBytes \in Nat

VARIABLES
    aborted,   \* signal.aborted
    handler,   \* where auditRunHandler is
    pc,        \* where each fetch is
    hop,       \* redirectCount of each fetch
    at,        \* the host of its currentUrl
    body,      \* the body it reads
    evidence,  \* what the probes found
    provider,  \* where the request for each strategy is
    sent       \* history: the requests to the site

fetchVars == <<pc, hop, at, body>>
siteVars  == <<fetchVars, evidence, sent>>
auditVars == <<aborted, handler, siteVars, provider>>

Addresses  == Public \cup Private
Hosts      == Names \cup Addresses
Probes     == {"robots", "sitemap"}
Fetches    == {"page"} \cup Probes
Strategies == {"mobile", "desktop"}
Verdicts   == {"VERIFIED", "MISSING", "UNAVAILABLE"}
Streams    == {"none", "live", "ended", "dead", "cut"}

Settled == handler \in {"done", "failed"}

NoBody == [stream |-> "none", encoded |-> FALSE, unread |-> FALSE, kept |-> 0]

FetchInit ==
    /\ aborted = FALSE
    /\ handler = "page"
    /\ pc = [f \in Fetches |-> IF f = "page" THEN "loop" ELSE "idle"]
    /\ hop = [f \in Fetches |-> 0]
    /\ \E h \in Hosts : at = [f \in Fetches |-> h]
    /\ body = [f \in Fetches |-> NoBody]
    /\ evidence = [p \in Probes |-> "none"]
    /\ provider = [s \in Strategies |-> "idle"]
    /\ sent = {}

-----------------------------------------------------------------------------
(* A fetch ends, and who awaits it goes on.                                *)

With(b, stream, unread, kept) ==
    [stream |-> stream, encoded |-> b.encoded, unread |-> unread, kept |-> kept]

(* An error destroys the response.  A fetch that returns leaves it as it   *)
(* is, and nobody listens to the signal on its behalf any more.            *)
Left(b) == IF b.stream = "live" THEN With(b, "live", FALSE, 0) ELSE NoBody

Ends(f, how, rest) ==
    /\ pc' = [pc EXCEPT ![f] = how]
    /\ body' = [body EXCEPT ![f] = rest]
    /\ UNCHANGED <<aborted, hop, at, sent, provider>>

(* Mutant of ProbeFails: every error is passed on.                         *)
ProbeFailsAudit(f) ==
    /\ f \in Probes
    /\ handler' = IF handler = "files" THEN "failed" ELSE handler
    /\ UNCHANGED evidence

(* An error is a limitation of the evidence, unless the audit is aborted:  *)
(* Promise.all then rejects, once, whatever the other probe does.          *)
ProbeFails(f) ==
    /\ f \in Probes
    /\ IF aborted
       THEN /\ handler' = IF handler = "files" THEN "failed" ELSE handler
            /\ UNCHANGED evidence
       ELSE /\ evidence' = [evidence EXCEPT ![f] = "UNAVAILABLE"]
            /\ UNCHANGED handler

PageFails(f) == f = "page" /\ handler' = "failed" /\ UNCHANGED evidence

Fails(f) == Ends(f, "failed", NoBody) /\ (PageFails(f) \/ ProbeFails(f))

(* With the page the two probes start, at the host it came from.           *)
PageReturns(f) ==
    /\ f = "page"
    /\ handler' = "files"
    /\ pc' = [g \in Fetches |-> IF g = f THEN "returned" ELSE "loop"]
    /\ at' = [g \in Fetches |-> at[f]]
    /\ body' = [body EXCEPT ![f] = Left(body[f])]
    /\ UNCHANGED <<aborted, hop, evidence, sent, provider>>

(* The status of the answer is the verdict.                                *)
ProbeReturns(f) ==
    /\ f \in Probes
    /\ Ends(f, "returned", Left(body[f]))
    /\ \E v \in Verdicts : evidence' = [evidence EXCEPT ![f] = v]
    /\ UNCHANGED handler

Returns(f) == PageReturns(f) \/ ProbeReturns(f)

-----------------------------------------------------------------------------
(* fetchAuditResource: one round of its loop per host.                     *)

StartRound(f) ==
    /\ pc[f] = "loop"
    /\ \/ aborted /\ Fails(f)
       \/ /\ ~aborted
          /\ pc' = [pc EXCEPT ![f] = "lookup"]
          /\ UNCHANGED <<aborted, handler, hop, at, body, evidence, sent, provider>>

(* What the name service says: it may change its mind between two rounds,  *)
(* know nothing, or fail.  An address is its own answer.                   *)
Answers(h) == IF h \in Names THEN SUBSET Addresses ELSE {{h}}

(* Mutant of ResolvesPublic: one address that may be asked will do.        *)
ResolvesPublicSomehow(records) == records \cap Public # {}

ResolvesPublic(records) == records # {} /\ records \subseteq Public

(* resolvePublicAuditHost, then performPinnedRequest: the request goes to  *)
(* an address of this answer, and is not sent when the signal was aborted  *)
(* meanwhile.                                                              *)
AddressKnown(f) ==
    /\ pc[f] = "lookup"
    /\ \E records \in Answers(at[f]) :
          \/ ~ResolvesPublic(records) /\ Fails(f)
          \/ ResolvesPublic(records) /\ aborted /\ Fails(f)
          \/ /\ ResolvesPublic(records) /\ ~aborted
             /\ \E a \in records :
                   sent' = sent \cup {[fetch |-> f, hop |-> hop[f], address |-> a]}
             /\ pc' = [pc EXCEPT ![f] = "waiting"]
             /\ UNCHANGED <<aborted, handler, hop, at, body, evidence, provider>>

(* Mutant of Redirected: counts one too many.                              *)
RedirectedOnceMore(f) ==
    IF hop[f] > MaxRedirects
    THEN Fails(f)
    ELSE /\ hop' = [hop EXCEPT ![f] = hop[f] + 1]
         /\ \E h \in Hosts : at' = [at EXCEPT ![f] = h]
         /\ pc' = [pc EXCEPT ![f] = "loop"]
         /\ UNCHANGED <<aborted, handler, body, evidence, sent, provider>>

Redirected(f) ==
    IF hop[f] >= MaxRedirects
    THEN Fails(f)
    ELSE /\ hop' = [hop EXCEPT ![f] = hop[f] + 1]
         /\ \E h \in Hosts : at' = [at EXCEPT ![f] = h]
         /\ pc' = [pc EXCEPT ![f] = "loop"]
         /\ UNCHANGED <<aborted, handler, body, evidence, sent, provider>>

BodyBegins(f) ==
    /\ \E encoded \in BOOLEAN :
          body' = [body EXCEPT ![f] = [stream |-> "live", encoded |-> encoded,
                                       unread |-> FALSE, kept |-> 0]]
    /\ pc' = [pc EXCEPT ![f] = "body"]
    /\ UNCHANGED <<aborted, handler, hop, at, evidence, sent, provider>>

(* The request fails, stays unanswered for its time, was destroyed by the  *)
(* abort, or its answer is refused: its type, its encoding, its length.    *)
Respond(f) ==
    /\ pc[f] = "waiting"
    /\ \/ Fails(f)
       \/ ~aborted /\ (Redirected(f) \/ BodyBegins(f))

-----------------------------------------------------------------------------
(* readBoundedBody.                                                        *)

BodyBecomes(f, b) ==
    /\ pc[f] = "body"
    /\ body' = [body EXCEPT ![f] = b]
    /\ UNCHANGED <<aborted, handler, pc, hop, at, evidence, sent, provider>>

PeerSends(f) ==
    /\ body[f].stream = "live" /\ ~body[f].unread
    /\ BodyBecomes(f, With(body[f], "live", TRUE, body[f].kept))

PeerEnds(f) ==
    /\ body[f].stream = "live"
    /\ BodyBecomes(f, With(body[f], "ended", body[f].unread, body[f].kept))

(* Mutant of Broken: every body is read through a decoder.                 *)
BrokenBehindDecoder(b) == IF b.stream = "live" THEN "cut" ELSE b.stream

(* The response is destroyed before its end.  Its own reader fails; a      *)
(* decoder keeps what it has and waits for more.                           *)
Broken(b) ==
    CASE b.stream \in {"live", "ended"} /\ ~b.encoded -> "dead"
      [] b.stream = "live" /\ b.encoded               -> "cut"
      [] OTHER                                        -> b.stream

(* The connection is reset, or the socket was idle for the whole time.     *)
PeerBreaks(f) ==
    /\ body[f].stream = "live"
    /\ BodyBecomes(f, With(body[f], Broken(body[f]), body[f].unread, body[f].kept))

(* One turn of the loop over the chunks.                                   *)
ReadChunk(f) ==
    LET b == body[f] IN
    /\ pc[f] = "body" /\ b.unread /\ b.stream # "dead"
    /\ \/ (b.encoded \/ aborted \/ b.kept = MaxBytes) /\ Fails(f)
       \/ /\ ~aborted /\ b.kept < MaxBytes
          /\ BodyBecomes(f, With(b, b.stream, FALSE, b.kept + 1))

(* Mutant of ReadEnd: the signal is looked at with each chunk only.        *)
ReadEndUnchecked(f) ==
    /\ pc[f] = "body" /\ body[f].stream = "ended" /\ ~body[f].unread
    /\ (body[f].encoded /\ Fails(f)) \/ Returns(f)

ReadEnd(f) ==
    /\ pc[f] = "body" /\ body[f].stream = "ended" /\ ~body[f].unread
    /\ \/ (body[f].encoded \/ aborted) /\ Fails(f)
       \/ ~aborted /\ Returns(f)

(* A decoder ends with its own format, whatever follows it in the response *)
(* and whatever becomes of the response then.                              *)
DecoderEnds(f) ==
    /\ pc[f] = "body" /\ body[f].encoded /\ ~body[f].unread
    /\ body[f].stream \in {"live", "cut"}
    /\ (aborted /\ Fails(f)) \/ (~aborted /\ Returns(f))

(* A response that was left as it is: the site ends it, or the idle timer  *)
(* of its socket does.                                                     *)
LeftEnds(f) ==
    /\ pc[f] = "returned" /\ body[f].stream = "live"
    /\ body' = [body EXCEPT ![f] = NoBody]
    /\ UNCHANGED <<aborted, handler, pc, hop, at, evidence, sent, provider>>

ReadError(f) == pc[f] = "body" /\ body[f].stream = "dead" /\ Fails(f)

-----------------------------------------------------------------------------
(* The performance provider.  It is not told of the signal; its own timer  *)
(* ends with the head of the answer.                                       *)

Asked(depth) == IF depth = "DEEP" THEN Strategies ELSE {"mobile"}

(* Without a key nothing is asked.                                         *)
StartMeasuring ==
    /\ handler = "files"
    /\ \A p \in Probes : evidence[p] # "none"
    /\ handler' = "measure"
    /\ \E depth \in {"QUICK", "DEEP"}, key \in BOOLEAN :
          LET asked == IF key THEN Asked(depth) ELSE {} IN
          provider' = [s \in Strategies |-> IF s \in asked THEN "asking" ELSE "done"]
    /\ UNCHANGED <<aborted, siteVars>>

ProviderAnswers(s) ==
    /\ provider[s] = "asking"
    /\ \E next \in {"reading", "done"} : provider' = [provider EXCEPT ![s] = next]
    /\ UNCHANGED <<aborted, handler, siteVars>>

ProviderTimesOut(s) ==
    /\ provider[s] = "asking"
    /\ provider' = [provider EXCEPT ![s] = "done"]
    /\ UNCHANGED <<aborted, handler, siteVars>>

ProviderRead(s) ==
    /\ provider[s] = "reading"
    /\ provider' = [provider EXCEPT ![s] = "done"]
    /\ UNCHANGED <<aborted, handler, siteVars>>

Finish ==
    /\ handler = "measure"
    /\ \A s \in Strategies : provider[s] = "done"
    /\ handler' = "done"
    /\ UNCHANGED <<aborted, siteVars, provider>>

-----------------------------------------------------------------------------
(* The worker aborts the signal, once, while the handler is under way.     *)

(* Mutant of Abort: nobody listens while a body is read.                   *)
AbortUnheard ==
    /\ ~aborted /\ ~Settled
    /\ aborted' = TRUE
    /\ UNCHANGED <<handler, siteVars, provider>>

Abort ==
    /\ ~aborted /\ ~Settled
    /\ aborted' = TRUE
    /\ body' = [f \in Fetches |->
          IF pc[f] # "body" THEN body[f]
          ELSE With(body[f], Broken(body[f]), body[f].unread, body[f].kept)]
    /\ UNCHANGED <<handler, pc, hop, at, evidence, sent, provider>>

PeerStep(f)     == PeerSends(f) \/ PeerEnds(f) \/ PeerBreaks(f)
                   \/ DecoderEnds(f) \/ LeftEnds(f)
FetchStep(f)    == StartRound(f) \/ AddressKnown(f) \/ Respond(f)
                   \/ ReadChunk(f) \/ ReadEnd(f) \/ ReadError(f)
ProviderStep(s) == ProviderAnswers(s) \/ ProviderTimesOut(s) \/ ProviderRead(s)

FetchNext ==
    \/ Abort
    \/ \E f \in Fetches : PeerStep(f) \/ FetchStep(f)
    \/ \E s \in Strategies : ProviderStep(s)
    \/ StartMeasuring \/ Finish

FetchSpec == FetchInit /\ [][FetchNext]_auditVars

(* The timer of the job fires; the name service answers; a request without *)
(* an answer is ended by its own timer; the process goes on with what is   *)
(* there to go on with.  Nobody makes the site send anything.              *)
FairFetchSpec ==
    /\ FetchSpec
    /\ WF_auditVars(Abort)
    /\ \A f \in Fetches : WF_auditVars(FetchStep(f))
    /\ \A s \in Strategies : WF_auditVars(ProviderStep(s))
    /\ WF_auditVars(StartMeasuring) /\ WF_auditVars(Finish)

-----------------------------------------------------------------------------
(* Properties.                                                             *)

(* Type invariant, with the budget of a fetch: no more redirects are       *)
(* followed than allowed, and no more of a body is kept.                   *)
FetchTypeOK ==
    /\ aborted \in BOOLEAN
    /\ handler \in {"page", "files", "measure", "done", "failed"}
    /\ pc \in [Fetches -> {"idle", "loop", "lookup", "waiting", "body",
                           "returned", "failed"}]
    /\ hop \in [Fetches -> 0..MaxRedirects]
    /\ at \in [Fetches -> Hosts]
    /\ body \in [Fetches -> [stream : Streams, encoded : BOOLEAN,
                             unread : BOOLEAN, kept : 0..MaxBytes]]
    /\ evidence \in [Probes -> Verdicts \cup {"none"}]
    /\ provider \in [Strategies -> {"idle", "asking", "reading", "done"}]
    /\ sent \subseteq [fetch : Fetches, hop : 0..MaxRedirects, address : Addresses]

(* However often a site redirects, and whatever the name service answers   *)
(* from one round to the next, an audit only goes to addresses it may go   *)
(* to.                                                                     *)
OnlyPublicAsked == \A r \in sent : r.address \in Public

(* From the abort on the site is asked nothing and nothing more is learnt  *)
(* from it: a body that was complete just then is not used either, and an  *)
(* aborted probe leaves no evidence.                                       *)
NothingAfterAbort ==
    [][aborted => /\ UNCHANGED <<sent, evidence>>
                  /\ \A f \in Fetches : pc'[f] = "returned" => pc[f] = "returned"
      ]_auditVars

(* When the handler is through, a connection to the site is open only if   *)
(* the site sent an encoded body whose decoder was through before the      *)
(* response was: those that failed, were aborted, or belong to the probe   *)
(* that Promise.all no longer waits for, are closed.  And what failed the  *)
(* handler was the page or the abort, not robots.txt, the sitemap or the   *)
(* provider.                                                               *)
OpenConnection(f) ==
    \/ pc[f] = "waiting" /\ ~aborted
    \/ body[f].stream = "live"
LeftOpen(f) == pc[f] = "returned" /\ body[f].encoded

HandlerEndsClean ==
    Settled => /\ \A f \in Fetches : OpenConnection(f) => LeftOpen(f)
               /\ handler = "failed" => pc["page"] = "failed" \/ aborted

(* The handler comes to an end, with the job's timer if not before, unless *)
(* an encoded body was cut off.                                            *)
SettlesUnlessCut ==
    <>(Settled \/ \E f \in Fetches : body[f].encoded /\ body[f].stream = "cut")
=============================================================================
