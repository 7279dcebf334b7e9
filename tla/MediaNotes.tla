----------------------------- MODULE MediaNotes -----------------------------
(***************************************************************************)
(* What the Worker makes of the attachments of a batch: the gateway turns  *)
(* a Telegram message into a descriptor, MediaRecognizer fetches a frame   *)
(* of each and has it described through the media role of the router, a    *)
(* few at a time; other callers use the same router meanwhile.             *)
(***************************************************************************)
EXTENDS FallbackChain, FiniteSets

CONSTANTS
  Batch,           \* the messages of the batch, a sequence
  OtherCall,       \* calls that are not made for an attachment
  OtherRole,       \* the roles of those calls
  MaxPerBatch,     \* max_per_batch
  MaxConcurrency   \* max_concurrency

Item == DOMAIN Batch

\* A message has at most one of the fields below ("at most one media
\* attachment", _descriptor_from_message), but for an animation, which Telegram
\* repeats as a document; the formats of a sticker and of a document, maybe a
\* thumbnail, and maybe a text.
Fields == {"animation", "photo", "video", "video_note", "sticker", "voice",
           "audio", "document"}
Attachments == {{}, {"animation", "document"}} \union {{f} : f \in Fields}
Message == [has: Attachments, format: {"static", "animated", "video"},
            image: BOOLEAN, thumb: BOOLEAN, text: BOOLEAN]

ASSUME NotesAssumption ==
  /\ Batch \in Seq(Message)
  /\ Call = Item \union OtherCall /\ Item \intersect OtherCall = {}
  /\ OtherRole \subseteq Role
  /\ MaxPerBatch \in Nat /\ MaxConcurrency \in Nat \ {0}

VARIABLES
  item,      \* item[i]: how far the description of attachment i is
  source,    \* source[i]: the sources of i that were tried
  note,      \* note[i]: what its marker says
  requested, \* requested[i]: the files fetch_media was called for
  fetched    \* fetched[i]: those that were frames to describe

notesVars == <<item, source, note, requested, fetched>>
vars == <<chainVars, notesVars>>

-----------------------------------------------------------------------------
(* Descriptors                                                             *)

\* Bug: documents come first.
DocumentFirst ==
  <<"document", "animation", "photo", "video", "video_note", "sticker", "voice",
    "audio">>

\* The order in which _descriptor_from_message looks at the fields.
FieldOrder == <<"animation", "photo", "video", "video_note", "sticker", "voice",
                "audio", "document">>

None == [kind |-> "none", format |-> "static", thumb |-> FALSE]

\* The field that is looked at first.
Leading(has) ==
  CHOOSE f \in has : \E n \in DOMAIN FieldOrder :
    /\ FieldOrder[n] = f
    /\ \A k \in 1 .. n - 1 : FieldOrder[k] \notin has

\* _extract_message, _descriptor_from_message: a text hides an attachment, a
\* document counts when it is an image, and then as a photo.  (The gateway
\* never leaves the descriptor out: the branch of _descriptor for payloads
\* without one serves messages queued by an older version.)
Descriptor(m) ==
  LET field == Leading(m.has)
  IN IF m.text \/ m.has = {} THEN None
     ELSE IF field # "document"
          THEN [kind |-> field, format |-> m.format,
                thumb |-> m.thumb /\ field \notin {"photo", "voice"}]
     ELSE IF m.image THEN [kind |-> "photo", format |-> m.format,
                           thumb |-> m.thumb]
     ELSE None

\* _image_sources: the file itself where it is a still image, then the
\* thumbnail.
Sources(d) ==
  LET still == \/ d.kind = "photo"
               \/ d.kind = "sticker" /\ d.format = "static"
  IN IF d.kind \in {"voice", "audio", "none"} THEN <<>>
     ELSE (IF still THEN <<"file">> ELSE <<>>)
            \o (IF d.thumb THEN <<"thumb">> ELSE <<>>)

Media == {i \in Item : Descriptor(Batch[i]).kind # "none"}

\* indices[: max_per_batch]
Allowed == {i \in Media : Cardinality({j \in Media : j < i}) < MaxPerBatch}

-----------------------------------------------------------------------------

\* queued: before the semaphore; fetch: before the next source; asked: its
\* frame is being described; done.
ItemPhases == {"queued", "fetch", "asked", "done"}
Notes == {"none", "skipped", "no preview", "sound", "not recognized",
          "described"}

TypeOK ==
  /\ call \in [Call -> [phase : Phases, role : Role, chain : Seq(Candidate),
                        tried : Seq(Outcomes)]]
  /\ \A k \in Call : Len(call[k].tried) <= Len(call[k].chain)
  /\ built \subseteq Provider \ Unavailable
  /\ faults \in 0 .. MaxFaults
  /\ item \in [Item -> ItemPhases]
  /\ source \in [Item -> 0 .. 2]
  /\ note \in [Item -> Notes]
  /\ requested \in [Item -> SUBSET {"file", "thumb"}]
  /\ fetched \in [Item -> SUBSET {"file", "thumb"}]

\* describe_many: what has no media, or is over the limit, is done at once.
Init ==
  /\ ChainInit
  /\ item = [i \in Item |-> IF i \in Allowed THEN "queued" ELSE "done"]
  /\ source = [i \in Item |-> 0]
  /\ note = [i \in Item |-> IF i \in Media \ Allowed THEN "skipped" ELSE "none"]
  /\ requested = [i \in Item |-> {}]
  /\ fetched = [i \in Item |-> {}]

\* Bug: a failure does not release the semaphore.
DescribingOrFailed ==
  {i \in Item : \/ item[i] \in {"fetch", "asked"}
                \/ item[i] = "done" /\ note[i] = "not recognized"}

Describing == {i \in Item : item[i] \in {"fetch", "asked"}}

\* The semaphore.
HasRoom == Cardinality(Describing) < MaxConcurrency

Enter(i) ==
  /\ item[i] = "queued"
  /\ HasRoom
  /\ item' = [item EXCEPT ![i] = "fetch"]
  /\ UNCHANGED <<chainVars, source, note, requested, fetched>>

Finishes(i, marker) ==
  /\ item' = [item EXCEPT ![i] = "done"]
  /\ note' = [note EXCEPT ![i] = marker]

\* What the marker says when no source was described.
FailureNote(i) ==
  IF Descriptor(Batch[i]).kind \in {"voice", "audio"} THEN "sound"
  ELSE IF fetched[i] = {} THEN "no preview" ELSE "not recognized"

\* No source is left.
GiveUp(i) ==
  /\ item[i] = "fetch"
  /\ source[i] = Len(Sources(Descriptor(Batch[i])))
  /\ Finishes(i, FailureNote(i))
  /\ UNCHANGED <<chainVars, source, requested, fetched>>

\* _fetch_image: the source is downloaded.  One that is not found, or turns
\* out to be too large or no image, is passed over; a frame is described.
Fetch(i) ==
  LET files == Sources(Descriptor(Batch[i]))
      file  == files[source[i] + 1]
  IN /\ item[i] = "fetch"
     /\ source[i] < Len(files)
     /\ source' = [source EXCEPT ![i] = @ + 1]
     /\ requested' = [requested EXCEPT ![i] = @ \union {file}]
     /\ \/ UNCHANGED <<chainVars, item, fetched>>
        \/ /\ fetched' = [fetched EXCEPT ![i] = @ \union {file}]
           /\ item' = [item EXCEPT ![i] = "asked"]
           /\ Begin(i, "media", "image")
     /\ UNCHANGED note

\* The router has answered: an empty description leads to the next source, an
\* exception ends the attempts.
Described(i) ==
  LET c == call[i]
      last == Last(c.tried)
  IN /\ item[i] = "asked"
     /\ c.phase \in Ended
     /\ IF c.phase # "answered" THEN Finishes(i, "not recognized")
        ELSE IF last = "text" THEN Finishes(i, "described")
        ELSE item' = [item EXCEPT ![i] = "fetch"] /\ UNCHANGED note
     /\ call' = [call EXCEPT ![i] = NoCall]
     /\ UNCHANGED <<built, faults, source, requested, fetched>>

ItemStep(i) == Enter(i) \/ GiveUp(i) \/ Fetch(i) \/ Described(i)

Next ==
  \/ \E i \in Item : ItemStep(i)
  \/ \E k \in OtherCall, role \in OtherRole :
       Begin(k, role, "none") /\ UNCHANGED notesVars
  \/ \E k \in Call : ChainStep(k) /\ UNCHANGED notesVars

\* Every task is run, and every request ends.  GeminiProvider gives its
\* requests no timeout: there that is a promise of the service.
Spec ==
  /\ Init /\ [][Next]_vars
  /\ \A i \in Item : WF_vars(ItemStep(i))
  /\ \A k \in Call : WF_vars(ChainStep(k) /\ UNCHANGED notesVars)

-----------------------------------------------------------------------------
(* Properties                                                              *)

\* No more than max_concurrency attachments are worked on, and no media call
\* is made but for one of them.
ConcurrencyKept ==
  /\ Cardinality(Describing) <= MaxConcurrency
  /\ \A i \in Item : call[i].phase # "idle" => item[i] = "asked"

\* "the main file is never fetched" (_descriptor_from_message): whatever
\* fields a message has, only its still images and thumbnails are downloaded,
\* whether or not they turn out to be of use.
OnlyFramesFetched ==
  \A i \in Item :
    "file" \in requested[i] =>
      LET m == Batch[i]
      IN /\ m.has \intersect {"animation", "video", "video_note"} = {}
         /\ "sticker" \in m.has => m.format = "static"

\* A note says what happened: a description was made of a frame, "no preview"
\* means that none could be fetched, and only attachments beyond the limit are
\* skipped.
NotesAreTrue ==
  \A i \in Item : item[i] = "done" =>
    /\ note[i] = "none"           <=> i \notin Media
    /\ note[i] = "skipped"        <=> i \in Media \ Allowed
    /\ note[i] = "described"      =>  fetched[i] # {}
    /\ note[i] = "not recognized" =>  fetched[i] # {}
    /\ note[i] = "no preview"     =>  fetched[i] = {}

\* describe_many returns: the batch waits for every description, so none may
\* wait for the semaphore or for a call without end.
AllDescribed == <>(\A i \in Item : item[i] = "done")
=============================================================================
