---------------------------- MODULE IntegrationBus ----------------------------
(***************************************************************************)
(* What a service asks of the fabric directly: naming a coordinate,        *)
(* publishing, verifying a stream and consuming with its own verdicts      *)
(* (br-core-integration coords, br-util-nats-fabric coords, fabric,        *)
(* consumer).  The managed loop, the relay and the declarant, which use    *)
(* the same calls, are modules of their own.                               *)
(*                                                                         *)
(* A raw name is the sequence of the tokens that its dots make of it; a    *)
(* subject is a sequence of tokens too.                                    *)
(***************************************************************************)
EXTENDS Naturals, Sequences, SequencesExt

CONSTANTS
  Client,
  Word,          \* tokens of letters, digits, - and _
  Raw,           \* raw coordinates callers try: [class, owner, aggregate, fact, version]
  Wishes,        \* sets of coordinates that callers bind
  Streams,       \* what operations may declare: per class, present and the patterns it binds
  MaxFrames

Class == {"cmd", "evt"}
VersionToken == {"v1", "v2"}   \* v<u8>

VARIABLES
  streams,   \* per class: is the stream there, and the subjects it binds
  frames,    \* what the streams hold
  durables,  \* per class: is the shared durable there, and its filters
  lent,      \* frames the broker waits an acknowledgement for
  settled,   \* frames it has one of
  opened,    \* per client: the class it pulls from
  held,      \* per client: the delivery in its hands
  declared,  \* coordinates any client declared for a durable (history)
  said       \* what the last probe or bind said of the streams as they are (history)

vars == <<streams, frames, durables, lent, settled, opened, held, declared, said>>

NoDurable == [created |-> FALSE, filters |-> {}]
Nothing == [frame |-> 0, payload |-> "none"]
Silence == [kind |-> "none", subject |-> <<>>]

Init ==
  /\ streams \in Streams
  /\ frames = <<>> /\ lent = {} /\ settled = {}
  /\ durables = [k \in Class |-> NoDurable]
  /\ opened = [c \in Client |-> "none"]
  /\ held = [c \in Client |-> Nothing]
  /\ declared = {} /\ said = Silence

-----------------------------------------------------------------------------
(* Coordinates *)

\* mutant: a name with a dot in it passes
SegmentLoose(name) == \A n \in DOMAIN name : name[n] \in Word

\* validate_segment: not empty, nothing but letters, digits, - and _.
Segment(name) == Len(name) = 1 /\ name[1] \in Word

\* Bc::new, Aggregate::new, Verb::new, PastFact::new
IsCoords(raw) == Segment(raw.owner) /\ Segment(raw.aggregate) /\ Segment(raw.fact)
Coords == {raw \in Raw : IsCoords(raw)}

\* command_subject, event_subject
Subject(coords) ==
  <<"integration", coords.class>> \o coords.owner \o coords.aggregate \o coords.fact
    \o <<coords.version>>

\* parse_event_subject: the coordinates, none for an error.
ParseEventSubject(subject) ==
  IF Len(subject) = 6 /\ SubSeq(subject, 1, 2) = <<"integration", "evt">> /\ subject[6] \in VersionToken
    THEN {coords \in {[class |-> "evt", owner |-> <<subject[3]>>, aggregate |-> <<subject[4]>>,
                       fact |-> <<subject[5]>>, version |-> subject[6]]} : IsCoords(coords)}
    ELSE {}

\* mutant: a tail wildcard is content with no token at all
PatternCoversLoose(pattern, subject) ==
  /\ Len(pattern) <= Len(subject) + 1
  /\ \A n \in DOMAIN pattern : pattern[n] \in {"*", ">"} \/ (n <= Len(subject) /\ pattern[n] = subject[n])
  /\ Len(pattern) = Len(subject) \/ (pattern # <<>> /\ Last(pattern) = ">")

\* pattern_covers: token by token, and a > only at the end, for one token or more.
PatternCovers(pattern, subject) ==
  LET from[n \in 1..Len(pattern) + 1] ==
        IF n > Len(pattern) THEN Len(subject) = Len(pattern)
        ELSE /\ n <= Len(subject)
             /\ CASE pattern[n] = ">" -> n = Len(pattern)
                  [] pattern[n] = "*" -> from[n + 1]
                  [] OTHER -> pattern[n] = subject[n] /\ from[n + 1]
  IN pattern # <<>> /\ subject # <<>> /\ from[1]

\* subject_covered
SubjectCovered(subjects, subject) == \E pattern \in subjects : PatternCovers(pattern, subject)

\* What the broker itself binds to a pattern.
Matches(pattern, subject) ==
  LET open == pattern # <<>> /\ Last(pattern) = ">"
      fixed == IF open THEN Front(pattern) ELSE pattern IN
  /\ IF open THEN Len(subject) > Len(fixed) ELSE Len(subject) = Len(fixed)
  /\ \A n \in DOMAIN fixed : fixed[n] # ">" /\ fixed[n] \in {"*", subject[n]}

Takers(subject) ==
  {k \in Class : streams[k].present /\ \E p \in streams[k].subjects : Matches(p, subject)}

-----------------------------------------------------------------------------
(* The broker and its operators *)

\* An answer that says nothing of the streams is not kept.
Say(kind, subject) ==
  said' = IF kind \in {"Other", "TimedOut", "PublishFailed"} THEN Silence
                                                             ELSE [kind |-> kind, subject |-> subject]

\* A stream is created, bound to other subjects, or deleted with its frames and its durable.
Configure ==
  /\ streams' \in Streams
  /\ LET lost == {n \in DOMAIN frames : ~streams'[frames[n].in].present} IN
     /\ lent' = lent \ lost
     /\ settled' = settled \cup lost
  /\ durables' = [k \in Class |-> IF streams'[k].present THEN durables[k] ELSE NoDurable]
  /\ said' = Silence
  /\ UNCHANGED <<frames, opened, held, declared>>

\* ack_wait runs out under whoever holds the frame.
Expire(n) ==
  /\ n \in lent
  /\ lent' = lent \ {n}
  /\ UNCHANGED <<streams, frames, durables, settled, opened, held, declared, said>>

-----------------------------------------------------------------------------
(* Publishing *)

\* mutant: a timeout is told as a missing stream
PublishErrorKindLoose(failure) ==
  IF failure \in {"StreamNotFound", "TimedOut"} THEN "NoStreamForSubject" ELSE "PublishFailed"

\* PublishErrorKind::from, by its words
PublishErrorKind(failure) ==
  CASE failure = "StreamNotFound" -> "NoStreamForSubject"
    [] failure = "TimedOut" -> "TimedOut"
    [] OTHER -> "PublishFailed"

\* Fabric::publish, publish_with_id: a coordinate that is none is refused before anything is
\* sent; what the broker stores stays stored if its answer is lost.  Message ids: OutboxRelay.
Publish(raw, readable) ==
  /\ raw \in Coords
  /\ LET takers == Takers(Subject(raw)) IN
     \/ /\ Len(frames) < MaxFrames
        /\ \E k \in takers :
             frames' = Append(frames, [subject |-> Subject(raw), of |-> raw, in |-> k,
                                       readable |-> readable])
        /\ \E told \in {"acknowledged", PublishErrorKind("TimedOut"), PublishErrorKind("BrokenPipe")} :
             Say(told, Subject(raw))
     \/ /\ \E failure \in {"TimedOut", "BrokenPipe"} \cup (IF takers = {} THEN {"StreamNotFound"} ELSE {}) :
             Say(PublishErrorKind(failure), Subject(raw))
        /\ UNCHANGED frames
  /\ UNCHANGED <<streams, durables, lent, settled, opened, held, declared>>

\* publish_command_if_connected, publish_event_if_connected: whatever came of it is dropped.
PublishIfConnected(raw, readable) ==
  /\ raw \in Coords /\ Len(frames) < MaxFrames
  /\ \E k \in Takers(Subject(raw)) :
       frames' = Append(frames, [subject |-> Subject(raw), of |-> raw, in |-> k,
                                 readable |-> readable])
  /\ UNCHANGED <<streams, durables, lent, settled, opened, held, declared, said>>

-----------------------------------------------------------------------------
(* Verifying, binding and consuming *)

\* get_stream: the broker's own not-found, or any other failure (classify_get_stream).
StreamAnswers(k) == IF streams[k].present THEN {"found", "Other"} ELSE {"NoStream", "Other"}

\* verify_command_durable, verify_event_durable: the durable itself is not touched.
Verify(coords) ==
  LET subject == Subject(coords) IN
  /\ \E answer \in StreamAnswers(coords.class) :
       Say(IF answer # "found" THEN answer
           ELSE IF SubjectCovered(streams[coords.class].subjects, subject) THEN "Covered"
           ELSE "SubjectNotCovered", subject)
  /\ UNCHANGED <<streams, frames, durables, lent, settled, opened, held, declared>>

\* mutant: no coordinates at all are sent to the broker, where they mean every subject
FiltersAny(wanted) == TRUE

\* ensure_durable_many refuses an empty set before it asks for the stream.
Filters(wanted) == wanted # {}

\* durable_config: of what it sets, the filters (one on filter_subject, several on
\* filter_subjects).
DurableConfig(wanted) == [created |-> TRUE, filters |-> {Subject(w) : w \in wanted}]

\* ensure_durable_many: created, or brought to these filters; then open_stream, which may fail.
Ensure(c, k, wanted, pulled) ==
  /\ IF ~Filters(wanted) \/ ~streams[k].present
       THEN /\ Say(IF Filters(wanted) THEN "NoStream" ELSE "FilterMismatch", <<>>)
            /\ UNCHANGED <<durables, declared, opened>>
       ELSE /\ durables' = [durables EXCEPT ![k] = DurableConfig(wanted)]
            /\ declared' = declared \cup wanted
            /\ opened' \in {opened, [opened EXCEPT ![c] = pulled]}
            /\ said' = Silence
  /\ UNCHANGED <<streams, frames, lent, settled, held>>

WishesOf(k) == {wanted \in Wishes : wanted \subseteq {w \in Coords : w.class = k}}

\* ensure_command_consumer: one coordinate; ensure_event_consumer_many: any set.
EnsureConsumer(c) ==
  \/ \E coords \in Coords : Ensure(c, coords.class, {coords}, coords.class)
  \/ \E wanted \in WishesOf("evt") : Ensure(c, "evt", wanted, "evt")

\* ensure_command_durable, ensure_event_durable: the durable alone, of one coordinate.
EnsureDurable(c) == \E coords \in Coords : Ensure(c, coords.class, {coords}, opened[c])

\* A durable with no filter takes whatever its stream holds.
Deliverable(k) ==
  {n \in DOMAIN frames \ (lent \cup settled) :
     /\ frames[n].in = k /\ durables[k].created
     /\ durables[k].filters = {} \/ frames[n].subject \in durables[k].filters}

\* Delivered::decode: a frame without delivery information is not even decoded.
Payload(frame, informed) ==
  IF ~informed THEN "NoDeliveryInfo" ELSE IF frame.readable THEN "decoded" ELSE "Decode"

\* IntegrationConsumer::recv
Recv(c) ==
  /\ opened[c] # "none" /\ held[c] = Nothing
  /\ \E n \in Deliverable(opened[c]), informed \in BOOLEAN :
       /\ lent' = lent \cup {n}
       /\ held' = [held EXCEPT ![c] = [frame |-> n, payload |-> Payload(frames[n], informed)]]
  /\ UNCHANGED <<streams, frames, durables, settled, opened, declared, said>>

\* Delivered::ack, nak and term consume the delivery, whether or not the broker hears of it
\* (classify_ack_error); progress does not.
Settle(c, verdict) ==
  /\ held[c] # Nothing
  /\ held' = [held EXCEPT ![c] = Nothing]
  /\ \/ /\ settled' = IF verdict = "nak" THEN settled ELSE settled \cup {held[c].frame}
        /\ lent' = lent \ {held[c].frame}
     \/ UNCHANGED <<lent, settled>>
  /\ UNCHANGED <<streams, frames, durables, opened, declared, said>>

\* Delivered::progress: the wait starts anew, if it is still running.
Progress(c) ==
  /\ held[c] # Nothing
  /\ lent' = IF held[c].frame \in settled THEN lent ELSE lent \cup {held[c].frame}
  /\ UNCHANGED <<streams, frames, durables, settled, opened, held, declared, said>>

\* IntegrationConsumer::drain
Drain(c) ==
  /\ opened[c] # "none"
  /\ opened' = [opened EXCEPT ![c] = "none"]
  /\ UNCHANGED <<streams, frames, durables, lent, settled, held, declared, said>>

Next ==
  \/ Configure
  \/ \E n \in lent : Expire(n)
  \/ \E raw \in Raw, readable \in BOOLEAN : Publish(raw, readable) \/ PublishIfConnected(raw, readable)
  \/ \E coords \in Coords : Verify(coords)
  \/ \E c \in Client :
       \/ EnsureConsumer(c) \/ EnsureDurable(c) \/ Recv(c) \/ Progress(c) \/ Drain(c)
       \/ \E verdict \in {"ack", "nak", "term"} : Settle(c, verdict)

Spec == Init /\ [][Next]_vars

-----------------------------------------------------------------------------
(* Properties *)

TypeOK ==
  /\ streams \in Streams
  /\ lent \cap settled = {} /\ lent \cup settled \subseteq DOMAIN frames
  /\ opened \in [Client -> Class \cup {"none"}]
  /\ \A c \in Client : held[c].frame \in {0} \cup DOMAIN frames
  /\ declared \subseteq Coords

\* README.md:352-360 of the fabric: a consumer is handed a frame only of coordinates that some
\* client of its durable declared, and the frame's subject reads back as what was published.
AddressesHold ==
  /\ \A c \in Client : held[c] # Nothing =>
       LET frame == frames[held[c].frame] IN
       /\ frame.of \in declared
       /\ frame.of.class = "evt" => ParseEventSubject(frame.subject) = {frame.of}
  /\ \A n, m \in DOMAIN frames : frames[n].subject = frames[m].subject => frames[n].of = frames[m].of

\* README.md:288-301 of the fabric: what a caller is told agrees with the broker.  While the streams
\* stay as they were, a publish on verified coordinates is never refused for want of a stream, and a
\* subject the probe refuses is one the stream does not take; a publish that was acknowledged is
\* stored, and one refused for want of a stream, which the relay gives up on, is taken by none.
ProbeAgrees ==
  /\ said.kind = "Covered" => said.subject[2] \in Takers(said.subject)
  /\ said.kind = "SubjectNotCovered" => said.subject[2] \notin Takers(said.subject)
  /\ said.kind = "acknowledged" => \E n \in DOMAIN frames : frames[n].subject = said.subject
  /\ said.kind = "NoStreamForSubject" => Takers(said.subject) = {}

-----------------------------------------------------------------------------
(* The inductive invariant *)

\* What a stream holds was published on a coordinate, under its subject.
Frames ==
  {[subject |-> Subject(coords), of |-> coords, in |-> k, readable |-> readable] :
     coords \in Coords, k \in Class, readable \in BOOLEAN}

\* A durable that is there filters, and on nothing that nobody declared; so what is delivered
\* from it was declared.
Declared ==
  /\ \A k \in Class : durables[k].created =>
       durables[k].filters # {} /\ durables[k].filters \subseteq {Subject(w) : w \in declared}
  /\ \A c \in Client : held[c] # Nothing =>
       held[c].frame \in DOMAIN frames /\ frames[held[c].frame].of \in declared

Inv ==
  /\ TypeOK
  /\ frames \in Seq(Frames)
  /\ durables \in [Class -> [created : BOOLEAN, filters : SUBSET {Subject(w) : w \in Coords}]]
  /\ DOMAIN held = Client
  /\ Declared /\ ProbeAgrees
=============================================================================
