-------------------------- MODULE AuditFetchProofs --------------------------
(***************************************************************************)
(* What AuditFetch keeps, for any names and addresses, any number of       *)
(* redirects and any size of body.                                         *)
(***************************************************************************)
EXTENDS AuditFetch, TLAPS

(* Only who reads a body has one, or who left a response behind a decoder. *)
BodiesRead ==
    \A f \in Fetches : pc[f] # "body" => body[f] = NoBody \/ LeftOpen(f)

(* The probes start when the page is there, and the handler goes on then.  *)
PageFirst ==
    pc["page"] # "returned" =>
       /\ handler \in {"page", "failed"}
       /\ \A p \in Probes : pc[p] = "idle" /\ evidence[p] = "none"

(* Who listens to the abort has no connection any more.                    *)
AbortHeard ==
    aborted => \A f \in Fetches : body[f].stream = "live" => pc[f] = "returned"

(* Without an abort only the page makes the audit fail.                    *)
PageFailsAudit == handler = "failed" => pc["page"] = "failed" \/ aborted

(* Evidence is what a probe ends with, and is there when it is asked for.  *)
EvidenceLast ==
    /\ \A p \in Probes : evidence[p] # "none" => pc[p] \in {"returned", "failed"}
    /\ handler \in {"measure", "done"} => \A p \in Probes : evidence[p] # "none"

FetchInv ==
    /\ FetchTypeOK
    /\ OnlyPublicAsked
    /\ PageFailsAudit
    /\ BodiesRead
    /\ PageFirst
    /\ AbortHeard
    /\ EvidenceLast

LEMMA NoBodyType == NoBody \in [stream : Streams, encoded : BOOLEAN,
                                unread : BOOLEAN, kept : 0..MaxBytes]
  BY LimitAssumption DEF NoBody, Streams

LEMMA LeftFacts ==
    ASSUME NEW b \in [stream : Streams, encoded : BOOLEAN, unread : BOOLEAN, kept : 0..MaxBytes]
    PROVE  /\ Left(b) \in [stream : Streams, encoded : BOOLEAN, unread : BOOLEAN, kept : 0..MaxBytes]
           /\ Left(b) = NoBody \/ (b.stream = "live" /\ Left(b).encoded = b.encoded)
  BY NoBodyType, LimitAssumption DEF Left, With, Streams

LEMMA FetchInitInv == FetchInit => FetchInv
  <1> SUFFICES ASSUME FetchInit PROVE FetchInv
    OBVIOUS
  <1>1. /\ at \in [Fetches -> Hosts]
        /\ hop \in [Fetches -> 0..MaxRedirects]
        /\ pc \in [Fetches -> {"idle", "loop", "lookup", "waiting", "body",
                               "returned", "failed"}]
    BY LimitAssumption DEF FetchInit
  <1>2. FetchTypeOK
    <2>1. body \in [Fetches -> [stream : Streams, encoded : BOOLEAN,
                                unread : BOOLEAN, kept : 0..MaxBytes]]
      BY NoBodyType DEF FetchInit
    <2>2. QED
      BY <1>1, <2>1 DEF FetchTypeOK, FetchInit
  <1>3. OnlyPublicAsked /\ PageFailsAudit /\ BodiesRead
    BY DEF FetchInit, Fetches, OnlyPublicAsked, PageFailsAudit, BodiesRead
  <1>4. PageFirst /\ AbortHeard /\ EvidenceLast
    BY DEF FetchInit, Fetches, Probes, NoBody, PageFirst, AbortHeard, EvidenceLast
  <1>5. QED
    BY <1>2, <1>3, <1>4 DEF FetchInv

Underway(f) == f \in Fetches /\ pc[f] \in {"loop", "lookup", "waiting", "body"}

(* A fetch that ends with an error.                                        *)
LEMMA FailsKeeps ==
    ASSUME FetchInv, NEW f, Underway(f), Fails(f) PROVE FetchInv'
  <1> USE DEF FetchInv, Underway, Fails, Ends
  <1>1. FetchTypeOK'
    BY NoBodyType DEF FetchTypeOK, PageFails, ProbeFails, Fetches, Probes, Verdicts
  <1>2. OnlyPublicAsked' /\ BodiesRead'
    BY DEF OnlyPublicAsked, BodiesRead, LeftOpen, FetchTypeOK
  <1>3. PageFailsAudit'
    BY DEF PageFailsAudit, FetchTypeOK, PageFails, ProbeFails, Fetches, Probes
  <1>4. PageFirst'
    BY DEF PageFirst, FetchTypeOK, PageFails, ProbeFails, Fetches, Probes
  <1>5. AbortHeard'
    BY DEF AbortHeard, FetchTypeOK, NoBody
  <1>6. EvidenceLast'
    BY DEF EvidenceLast, PageFirst, FetchTypeOK, PageFails, ProbeFails, Fetches, Probes
  <1>7. QED
    BY <1>1, <1>2, <1>3, <1>4, <1>5, <1>6

(* A fetch that returns what it read.                                      *)
LEMMA ReturnsKeeps ==
    ASSUME FetchInv, NEW f, f \in Fetches, pc[f] = "body", ~aborted, Returns(f),
           body[f].stream = "live" => body[f].encoded
    PROVE  FetchInv'
  <1> USE DEF FetchInv
  <1>0. PICK b : b = Left(body[f])
    OBVIOUS
  <1>b. /\ b \in [stream : Streams, encoded : BOOLEAN, unread : BOOLEAN, kept : 0..MaxBytes]
        /\ b = NoBody \/ b.encoded
    BY <1>0, LeftFacts DEF FetchTypeOK
  <1>1. CASE PageReturns(f)
    <2> USE <1>1 DEF PageReturns
    <2>0. body' = [body EXCEPT ![f] = b]
      BY <1>0
    <2>1. FetchTypeOK'
      BY <1>b, <2>0 DEF FetchTypeOK, Fetches, Probes
    <2>2. OnlyPublicAsked' /\ PageFailsAudit' /\ EvidenceLast'
      BY DEF OnlyPublicAsked, PageFailsAudit, EvidenceLast, PageFirst, FetchTypeOK,
             Fetches, Probes
    <2>3. BodiesRead' /\ AbortHeard'
      BY <1>b, <2>0 DEF BodiesRead, LeftOpen, AbortHeard, PageFirst, FetchTypeOK, Fetches, Probes
    <2>4. PageFirst'
      BY DEF PageFirst, FetchTypeOK, Fetches, Probes
    <2>5. QED
      BY <2>1, <2>2, <2>3, <2>4
  <1>2. CASE ProbeReturns(f)
    <2> USE <1>2 DEF ProbeReturns, Ends
    <2>0. body' = [body EXCEPT ![f] = b]
      BY <1>0
    <2>1. FetchTypeOK'
      BY <1>b, <2>0 DEF FetchTypeOK, Fetches, Probes
    <2>2. OnlyPublicAsked' /\ PageFailsAudit'
      BY DEF OnlyPublicAsked, PageFailsAudit, FetchTypeOK, Fetches, Probes
    <2>3. BodiesRead' /\ AbortHeard'
      BY <1>b, <2>0 DEF BodiesRead, LeftOpen, AbortHeard, FetchTypeOK
    <2>4. PageFirst'
      BY DEF PageFirst, FetchTypeOK, Fetches, Probes
    <2>5. EvidenceLast'
      BY DEF EvidenceLast, PageFirst, FetchTypeOK, Verdicts, Fetches, Probes
    <2>6. QED
      BY <2>1, <2>2, <2>3, <2>4, <2>5
  <1>3. QED
    BY <1>1, <1>2 DEF Returns

(* A fetch that goes on: its place, its redirects, its address and its     *)
(* body may change.                                                        *)
LEMMA GoesOnKeeps ==
    ASSUME FetchInv, NEW f, Underway(f), NEW place,
           place \in {"loop", "lookup", "waiting", "body"}, pc' = [pc EXCEPT ![f] = place],
           NEW b, body' = [body EXCEPT ![f] = b],
           b \in [stream : Streams, encoded : BOOLEAN, unread : BOOLEAN, kept : 0..MaxBytes],
           place # "body" => b = NoBody,
           aborted => b.stream # "live",
           hop' \in [Fetches -> 0..MaxRedirects], at' \in [Fetches -> Hosts],
           sent' \subseteq [fetch : Fetches, hop : 0..MaxRedirects, address : Addresses],
           OnlyPublicAsked',
           UNCHANGED <<aborted, handler, evidence, provider>>
    PROVE  FetchInv'
  <1> USE DEF FetchInv, Underway
  <1>1. FetchTypeOK'
    BY DEF FetchTypeOK
  <1>2. BodiesRead' /\ AbortHeard'
    BY DEF BodiesRead, LeftOpen, AbortHeard, FetchTypeOK
  <1>3. PageFailsAudit' /\ PageFirst'
    BY DEF PageFailsAudit, PageFirst, FetchTypeOK, Fetches, Probes
  <1>4. EvidenceLast'
    BY DEF EvidenceLast, FetchTypeOK, Fetches, Probes
  <1>5. QED
    BY <1>1, <1>2, <1>3, <1>4

LEMMA SameBody ==
    ASSUME FetchInv, NEW f, f \in Fetches, body' = body
    PROVE  body' = [body EXCEPT ![f] = body[f]]
  BY DEF FetchInv, FetchTypeOK

LEMMA StartRoundKeeps ==
    ASSUME FetchInv, NEW f \in Fetches, StartRound(f) PROVE FetchInv'
  <1> USE DEF StartRound
  <1>1. CASE aborted /\ Fails(f)
    BY <1>1, FailsKeeps DEF Underway
  <1>2. CASE ~aborted /\ ~(aborted /\ Fails(f))
    <2>1. body' = [body EXCEPT ![f] = NoBody]
      BY <1>2, SameBody DEF FetchInv, BodiesRead, LeftOpen
    <2>2. OnlyPublicAsked'
      BY <1>2 DEF FetchInv, OnlyPublicAsked
    <2>3. /\ Underway(f) /\ ~aborted
          /\ pc' = [pc EXCEPT ![f] = "lookup"]
          /\ UNCHANGED <<aborted, handler, hop, at, evidence, sent, provider>>
      BY <1>2 DEF Underway
    <2>4. /\ hop' \in [Fetches -> 0..MaxRedirects] /\ at' \in [Fetches -> Hosts]
          /\ sent' \subseteq [fetch : Fetches, hop : 0..MaxRedirects, address : Addresses]
      BY <2>3 DEF FetchInv, FetchTypeOK
    <2>5. QED
      BY <2>1, <2>2, <2>3, <2>4, GoesOnKeeps, NoBodyType
  <1>3. QED
    BY <1>1, <1>2

LEMMA AddressKnownKeeps ==
    ASSUME FetchInv, NEW f \in Fetches, AddressKnown(f) PROVE FetchInv'
  <1>1. CASE Fails(f)
    BY <1>1, FailsKeeps DEF AddressKnown, Underway
  <1>2. CASE ~Fails(f)
    <2>1. PICK records \in Answers(at[f]) :
             /\ ResolvesPublic(records) /\ ~aborted
             /\ \E a \in records :
                   sent' = sent \cup {[fetch |-> f, hop |-> hop[f], address |-> a]}
             /\ pc' = [pc EXCEPT ![f] = "waiting"]
             /\ UNCHANGED <<aborted, handler, hop, at, body, evidence, provider>>
      BY <1>2 DEF AddressKnown
    <2>2. PICK a \in records : sent' = sent \cup {[fetch |-> f, hop |-> hop[f], address |-> a]}
      BY <2>1
    <2>3. a \in Public
      BY <2>1, <2>2 DEF ResolvesPublic
    <2>4. OnlyPublicAsked'
      BY <2>2, <2>3 DEF FetchInv, OnlyPublicAsked
    <2>5. sent' \subseteq [fetch : Fetches, hop : 0..MaxRedirects, address : Addresses]
      BY <2>2, <2>3 DEF FetchInv, FetchTypeOK, Addresses
    <2>6. body' = [body EXCEPT ![f] = NoBody]
      BY <2>1, SameBody DEF FetchInv, BodiesRead, LeftOpen, AddressKnown
    <2>7. Underway(f) /\ hop' \in [Fetches -> 0..MaxRedirects] /\ at' \in [Fetches -> Hosts]
      BY <2>1 DEF AddressKnown, Underway, FetchInv, FetchTypeOK
    <2>8. pc' = [pc EXCEPT ![f] = "waiting"] /\ UNCHANGED <<aborted, handler, evidence, provider>>
      BY <2>1
    <2>9. aborted => NoBody.stream # "live"
      BY <2>1
    <2>10. QED
      BY <2>4, <2>5, <2>6, <2>7, <2>8, <2>9, GoesOnKeeps, NoBodyType
  <1>3. QED
    BY <1>1, <1>2

LEMMA RespondKeeps ==
    ASSUME FetchInv, NEW f \in Fetches, Respond(f) PROVE FetchInv'
  <1> USE DEF Respond
  <1>1. CASE Fails(f)
    BY <1>1, FailsKeeps DEF Underway
  <1>2. CASE ~aborted /\ Redirected(f) /\ ~Fails(f)
    <2> USE DEF Redirected
    <2>1. hop[f] \in 0..MaxRedirects /\ ~(hop[f] >= MaxRedirects)
      BY <1>2 DEF FetchInv, FetchTypeOK
    <2>2. hop' \in [Fetches -> 0..MaxRedirects]
      BY <1>2, <2>1, LimitAssumption DEF FetchInv, FetchTypeOK
    <2>3. at' \in [Fetches -> Hosts]
      BY <1>2 DEF FetchInv, FetchTypeOK
    <2>4. body' = [body EXCEPT ![f] = NoBody]
      BY <1>2, SameBody DEF FetchInv, BodiesRead, LeftOpen
    <2>5. OnlyPublicAsked'
      BY <1>2 DEF FetchInv, OnlyPublicAsked
    <2>6. QED
      BY <1>2, <2>2, <2>3, <2>4, <2>5, GoesOnKeeps, NoBodyType
         DEF Underway, FetchInv, FetchTypeOK, NoBody
  <1>3. CASE ~aborted /\ BodyBegins(f)
    <2>1. PICK encoded \in BOOLEAN :
             body' = [body EXCEPT ![f] = [stream |-> "live", encoded |-> encoded,
                                          unread |-> FALSE, kept |-> 0]]
      BY <1>3 DEF BodyBegins
    <2>2. OnlyPublicAsked'
      BY <1>3 DEF FetchInv, OnlyPublicAsked, BodyBegins
    <2>3. [stream |-> "live", encoded |-> encoded, unread |-> FALSE, kept |-> 0]
             \in [stream : Streams, encoded : BOOLEAN, unread : BOOLEAN, kept : 0..MaxBytes]
      BY LimitAssumption DEF Streams
    <2>4. QED
      BY <1>3, <2>1, <2>2, <2>3, GoesOnKeeps DEF BodyBegins, Underway, FetchInv, FetchTypeOK
  <1>4. QED
    BY <1>1, <1>2, <1>3

(* A body that is read, sent, ended or broken off.                         *)
LEMMA BodyKeeps ==
    ASSUME FetchInv, NEW f \in Fetches, NEW b, BodyBecomes(f, b),
           b \in [stream : Streams, encoded : BOOLEAN, unread : BOOLEAN, kept : 0..MaxBytes],
           aborted => b.stream # "live"
    PROVE  FetchInv'
  <1>1. pc' = [pc EXCEPT ![f] = "body"]
    BY DEF BodyBecomes, FetchInv, FetchTypeOK
  <1>2. OnlyPublicAsked'
    BY DEF BodyBecomes, FetchInv, OnlyPublicAsked
  <1>3. QED
    BY <1>1, <1>2, GoesOnKeeps DEF BodyBecomes, Underway, FetchInv, FetchTypeOK

LEMMA BrokenType ==
    ASSUME NEW b \in [stream : Streams, encoded : BOOLEAN, unread : BOOLEAN, kept : 0..MaxBytes]
    PROVE  Broken(b) \in Streams /\ Broken(b) # "live"
  BY DEF Broken, Streams

LEMMA PeerKeeps ==
    ASSUME FetchInv, NEW f \in Fetches, PeerSends(f) \/ PeerEnds(f) \/ PeerBreaks(f)
    PROVE  FetchInv'
  <1>1. body[f] \in [stream : Streams, encoded : BOOLEAN, unread : BOOLEAN, kept : 0..MaxBytes]
    BY DEF FetchInv, FetchTypeOK
  <1>2. pc[f] = "body" /\ body[f].stream = "live" => ~aborted
    BY DEF FetchInv, AbortHeard
  <1>3. CASE PeerSends(f)
    BY <1>1, <1>2, <1>3, BodyKeeps DEF PeerSends, With, Streams, BodyBecomes
  <1>4. CASE PeerEnds(f)
    BY <1>1, <1>2, <1>4, BodyKeeps DEF PeerEnds, With, Streams, BodyBecomes
  <1>5. CASE PeerBreaks(f)
    BY <1>1, <1>2, <1>5, BodyKeeps, BrokenType DEF PeerBreaks, With, BodyBecomes
  <1>6. QED
    BY <1>3, <1>4, <1>5

(* A response that was left behind its decoder, and is closed at last.     *)
LEMMA DecoderKeeps ==
    ASSUME FetchInv, NEW f \in Fetches, DecoderEnds(f) PROVE FetchInv'
  <1>1. CASE Fails(f)
    BY <1>1, FailsKeeps DEF DecoderEnds, Underway
  <1>2. CASE ~Fails(f)
    BY <1>2, ReturnsKeeps DEF DecoderEnds
  <1>3. QED
    BY <1>1, <1>2

LEMMA LeftKeeps ==
    ASSUME FetchInv, NEW f \in Fetches, LeftEnds(f) PROVE FetchInv'
  <1> USE DEF FetchInv, LeftEnds
  <1>1. FetchTypeOK'
    BY NoBodyType DEF FetchTypeOK
  <1>2. BodiesRead' /\ AbortHeard'
    BY DEF BodiesRead, LeftOpen, AbortHeard, FetchTypeOK, NoBody
  <1>3. OnlyPublicAsked' /\ PageFailsAudit' /\ PageFirst' /\ EvidenceLast'
    BY DEF OnlyPublicAsked, PageFailsAudit, PageFirst, EvidenceLast
  <1>4. QED
    BY <1>1, <1>2, <1>3

LEMMA ReadChunkKeeps ==
    ASSUME FetchInv, NEW f \in Fetches, ReadChunk(f) PROVE FetchInv'
  <1>1. body[f] \in [stream : Streams, encoded : BOOLEAN, unread : BOOLEAN, kept : 0..MaxBytes]
    BY DEF FetchInv, FetchTypeOK
  <1>2. CASE Fails(f)
    BY <1>2, FailsKeeps DEF ReadChunk, Underway
  <1>3. CASE ~Fails(f)
    <2>1. /\ ~aborted /\ body[f].kept < MaxBytes
          /\ BodyBecomes(f, With(body[f], body[f].stream, FALSE, body[f].kept + 1))
      BY <1>3 DEF ReadChunk
    <2>2. body[f].kept + 1 \in 0..MaxBytes
      BY <1>1, <2>1, LimitAssumption
    <2>3. QED
      BY <1>1, <2>1, <2>2, BodyKeeps DEF With
  <1>4. QED
    BY <1>2, <1>3

LEMMA ReadEndsKeeps ==
    ASSUME FetchInv, NEW f \in Fetches, ReadEnd(f) \/ ReadError(f) PROVE FetchInv'
  <1>1. CASE Fails(f)
    BY <1>1, FailsKeeps DEF ReadEnd, ReadError, Underway
  <1>2. CASE ~Fails(f)
    BY <1>2, ReturnsKeeps DEF ReadEnd, ReadError
  <1>3. QED
    BY <1>1, <1>2

(* Steps of the handler and the provider leave the fetches alone.          *)
LEMMA MeasureKeeps ==
    ASSUME FetchInv,
           StartMeasuring \/ Finish \/ (\E s \in Strategies : ProviderStep(s))
    PROVE  FetchInv'
  <1> USE DEF FetchInv, siteVars, fetchVars
  <1>1. UNCHANGED <<aborted, siteVars>>
    BY DEF StartMeasuring, Finish, ProviderStep, ProviderAnswers, ProviderTimesOut, ProviderRead
  <1>2. provider' \in [Strategies -> {"idle", "asking", "reading", "done"}]
    BY DEF StartMeasuring, Finish, ProviderStep, ProviderAnswers, ProviderTimesOut,
           ProviderRead, FetchTypeOK, Asked, Strategies
  <1>3. \/ handler' = handler
        \/ /\ handler \in {"files", "measure"} /\ handler' \in {"measure", "done"}
           /\ \A p \in Probes : evidence[p] # "none"
    BY DEF StartMeasuring, Finish, ProviderStep, ProviderAnswers, ProviderTimesOut,
           ProviderRead, EvidenceLast
  <1>4. FetchTypeOK'
    BY <1>1, <1>2, <1>3 DEF FetchTypeOK
  <1>5. OnlyPublicAsked' /\ PageFailsAudit' /\ BodiesRead' /\ AbortHeard'
    BY <1>1, <1>3 DEF OnlyPublicAsked, PageFailsAudit, BodiesRead, LeftOpen, AbortHeard
  <1>6. PageFirst' /\ EvidenceLast'
    BY <1>1, <1>3 DEF PageFirst, EvidenceLast
  <1>7. QED
    BY <1>4, <1>5, <1>6

LEMMA AbortKeeps == ASSUME FetchInv, Abort PROVE FetchInv'
  <1> USE DEF FetchInv, Abort
  <1>1. \A f \in Fetches :
           /\ pc[f] # "body" => body'[f] = body[f]
           /\ pc[f] = "body" =>
                 body'[f] = With(body[f], Broken(body[f]), body[f].unread, body[f].kept)
           /\ body[f] \in [stream : Streams, encoded : BOOLEAN,
                           unread : BOOLEAN, kept : 0..MaxBytes]
    BY DEF FetchTypeOK
  <1>2. FetchTypeOK'
    <2>1. body' \in [Fetches -> [stream : Streams, encoded : BOOLEAN,
                                 unread : BOOLEAN, kept : 0..MaxBytes]]
      BY <1>1, BrokenType DEF With
    <2>2. QED
      BY <2>1 DEF FetchTypeOK
  <1>3. OnlyPublicAsked' /\ PageFailsAudit' /\ PageFirst' /\ EvidenceLast'
    BY DEF OnlyPublicAsked, PageFailsAudit, PageFirst, EvidenceLast
  <1>4. BodiesRead'
    BY <1>1 DEF BodiesRead, LeftOpen
  <1>5. AbortHeard'
    BY <1>1, BrokenType DEF AbortHeard, With, BodiesRead, LeftOpen, NoBody
  <1>6. QED
    BY <1>2, <1>3, <1>4, <1>5

LEMMA FetchNextInv == ASSUME FetchInv, [FetchNext]_auditVars PROVE FetchInv'
  <1>1. CASE Abort
    BY <1>1, AbortKeeps
  <1>2. ASSUME NEW f \in Fetches, PeerStep(f) PROVE FetchInv'
    BY <1>2, PeerKeeps, DecoderKeeps, LeftKeeps DEF PeerStep
  <1>3. ASSUME NEW f \in Fetches, FetchStep(f) PROVE FetchInv'
    BY <1>3, StartRoundKeeps, AddressKnownKeeps, RespondKeeps, ReadChunkKeeps, ReadEndsKeeps
       DEF FetchStep
  <1>4. CASE StartMeasuring \/ Finish \/ (\E s \in Strategies : ProviderStep(s))
    BY <1>4, MeasureKeeps
  <1>5. CASE UNCHANGED auditVars
    BY <1>5 DEF auditVars, siteVars, fetchVars, FetchInv, FetchTypeOK,
                OnlyPublicAsked, PageFailsAudit, BodiesRead, LeftOpen, PageFirst,
                AbortHeard, EvidenceLast
  <1>6. QED
    BY <1>1, <1>2, <1>3, <1>4, <1>5 DEF FetchNext

THEOREM FetchInvariant == FetchSpec => []FetchInv
  BY FetchInitInv, FetchNextInv, PTL DEF FetchSpec

(* A fetch keeps its budget: it follows no more redirects than allowed and *)
(* keeps no more of a body.                                                *)
THEOREM FetchTypesKept == FetchSpec => []FetchTypeOK
  <1>1. FetchInv => FetchTypeOK
    BY DEF FetchInv
  <1>2. QED
    BY <1>1, FetchInvariant, PTL

(* An audit only goes to public addresses, for every name service and      *)
(* every number of redirects.                                              *)
THEOREM PublicOnly == FetchSpec => []OnlyPublicAsked
  <1>1. FetchInv => OnlyPublicAsked
    BY DEF FetchInv
  <1>2. QED
    BY <1>1, FetchInvariant, PTL

(* When the handler is through, no connection is open but one whose        *)
(* decoder was through before its response, and what failed the handler    *)
(* was the page or the abort.                                              *)
THEOREM HandlersEndClean == FetchSpec => []HandlerEndsClean
  <1>1. FetchInv => HandlerEndsClean
    <2> SUFFICES ASSUME FetchInv, Settled, NEW f \in Fetches, OpenConnection(f)
                 PROVE  LeftOpen(f)
      BY DEF HandlerEndsClean, FetchInv, PageFailsAudit
    <2> USE DEF FetchInv
    <2>1. body[f].stream = "live" => LeftOpen(f) \/ (pc[f] = "body" /\ ~aborted)
      BY DEF BodiesRead, LeftOpen, AbortHeard, NoBody
    <2>2. ASSUME ~aborted PROVE pc[f] \notin {"waiting", "body"}
      <3>1. CASE handler = "done"
        <4>1. pc["page"] = "returned" /\ \A p \in Probes : pc[p] \in {"returned", "failed"}
          BY <3>1 DEF PageFirst, EvidenceLast
        <4>2. QED
          BY <4>1 DEF Fetches
      <3>2. CASE handler = "failed"
        <4>1. pc["page"] = "failed" /\ \A p \in Probes : pc[p] = "idle"
          BY <2>2, <3>2 DEF PageFailsAudit, PageFirst
        <4>2. QED
          BY <4>1 DEF Fetches
      <3>3. QED
        BY <3>1, <3>2 DEF Settled
    <2>3. QED
      BY <2>1, <2>2 DEF OpenConnection
  <1>2. QED
    BY <1>1, FetchInvariant, PTL

(* From the abort on nothing is asked of the site and nothing is learnt.   *)
THEOREM AbortIsLast == FetchSpec => NothingAfterAbort
  <1>1. ASSUME FetchInv, [FetchNext]_auditVars
        PROVE  [aborted => /\ UNCHANGED <<sent, evidence>>
                           /\ \A f \in Fetches : pc'[f] = "returned" => pc[f] = "returned"
               ]_auditVars
    <2> SUFFICES ASSUME aborted, FetchNext
                 PROVE  /\ UNCHANGED <<sent, evidence>>
                        /\ \A f \in Fetches : pc'[f] = "returned" => pc[f] = "returned"
      BY <1>1
    <2> USE <1>1 DEF FetchInv, FetchTypeOK
    <2>1. ASSUME NEW f \in Fetches, Fails(f)
          PROVE  /\ UNCHANGED <<sent, evidence>>
                 /\ \A g \in Fetches : pc'[g] = "returned" => pc[g] = "returned"
      BY <2>1 DEF Fails, Ends, PageFails, ProbeFails
    <2>2. ASSUME NEW f \in Fetches, FetchStep(f) PROVE Fails(f) \/ UNCHANGED <<sent, evidence, pc>>
      BY <2>2 DEF FetchStep, StartRound, AddressKnown, Respond, ReadChunk, ReadEnd, ReadError
    <2>3. ASSUME NEW f \in Fetches, PeerStep(f) PROVE Fails(f) \/ UNCHANGED <<sent, evidence, pc>>
      BY <2>3 DEF PeerStep, PeerSends, PeerEnds, PeerBreaks, BodyBecomes, DecoderEnds, LeftEnds
    <2>4. CASE StartMeasuring \/ Finish \/ (\E s \in Strategies : ProviderStep(s))
      BY <2>4 DEF StartMeasuring, Finish, ProviderStep, ProviderAnswers, ProviderTimesOut,
                  ProviderRead, siteVars, fetchVars
    <2>5. ~Abort
      BY DEF Abort
    <2>6. QED
      BY <2>1, <2>2, <2>3, <2>4, <2>5 DEF FetchNext
  <1>2. QED
    BY <1>1, FetchInvariant, PTL DEF FetchSpec, NothingAfterAbort
=============================================================================
