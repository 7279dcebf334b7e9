--------------------------- MODULE FallbackChain ---------------------------
(***************************************************************************)
(* Calls of language models and search engines: LLMRouter walks the        *)
(* candidates of a role until one answers, SearchChain its providers.      *)
(* ProviderRegistry builds a provider when it is first asked for.          *)
(*                                                                         *)
(* How long a request takes is open: the timeout of 60 s that the          *)
(* providers give httpx is one for each phase of a request, and            *)
(* GeminiProvider gives none.                                              *)
(***************************************************************************)
EXTENDS Integers, Sequences, SequencesExt

CONSTANTS
  Call,          \* calls, each made once
  Role,          \* dialogue, cs, bp, media, vs; search for SearchChain
  Provider,      \* gemini, openrouter, ...
  Config,        \* Config[r]: the entries of a role, in order
  Unavailable,   \* providers that are not registered, or disabled
  MaxFaults      \* bounds the failures to build a provider

\* An entry names a provider, its models and the modalities it is good for.
\* LLMRouter has {} for any modality.
Candidate == [provider : Provider, model : Nat]
Entry == [provider : Provider, models : Seq(Nat),
          modalities : SUBSET {"image", "audio", "video"}]

ASSUME ChainAssumption ==
  /\ {"media", "vs", "search"} \subseteq Role
  /\ Config \in [Role -> Seq(Entry)]
  /\ MaxFaults \in Nat

VARIABLES
  call,     \* the calls
  built,    \* providers in _instances
  faults

chainVars == <<call, built, faults>>

-----------------------------------------------------------------------------

\* next: before a candidate; asked: its request is under way; pause: the
\* backoff after a transient failure.
Phases == {"idle", "next", "asked", "pause", "answered", "exhausted", "raised"}
Ended  == {"answered", "exhausted", "raised"}

\* How a candidate ends.  transient: network, 429, 5xx; fatal: other 4xx;
\* other: any exception that is not an LLMError; empty: an answer without
\* text, or without hits.
Failures == {"unavailable", "transient", "fatal", "other"}
Outcomes == {"text", "empty"} \union Failures

Fits(item, role, modality) ==
  \/ role # "media" \/ modality = "none"
  \/ item.modalities = {} \/ modality \in item.modalities

Pairs(item) == [n \in DOMAIN item.models |->
                  [provider |-> item.provider, model |-> item.models[n]]]

\* _chain: the candidates of a role, in the order of the configuration; the
\* entries of the media role are chosen by the modality of the message.
Candidates(role, modality) ==
  LET entries == Config[role]
      upto[n \in 0 .. Len(entries)] ==
        IF n = 0 THEN <<>>
        ELSE upto[n - 1] \o (IF Fits(entries[n], role, modality)
                             THEN Pairs(entries[n]) ELSE <<>>)
  IN upto[Len(entries)]

NoCall == [phase |-> "idle", role |-> "search", chain |-> <<>>, tried |-> <<>>]

ChainInit ==
  /\ call = [k \in Call |-> NoCall]
  /\ built = {}
  /\ faults = 0

Current(k) == call[k].chain[Len(call[k].tried) + 1]

-----------------------------------------------------------------------------

\* generate_with_fallback, embed, search.
Begin(k, role, modality) ==
  /\ call[k].phase = "idle"
  /\ call' = [call EXCEPT ![k] =
       [NoCall EXCEPT !.phase = "next", !.role = role,
                      !.chain = Candidates(role, modality)]]
  /\ UNCHANGED <<built, faults>>

Move(k, phase, outcome) ==
  call' = [call EXCEPT ![k].phase = phase, ![k].tried = Append(@, outcome)]

\* ProviderRegistry.get raises: the candidate is skipped.
Skip(k) ==
  LET p == Current(k).provider
  IN /\ call[k].phase = "next"
     /\ call[k].role # "search"
     /\ Len(call[k].tried) < Len(call[k].chain)
     /\ \/ p \in Unavailable /\ UNCHANGED faults
        \/ /\ p \notin Unavailable \union built
           /\ faults < MaxFaults
           /\ faults' = faults + 1
     /\ Move(k, "next", "unavailable")
     /\ UNCHANGED built

\* The provider is there, or is built, and asked.
Ask(k) ==
  LET p == Current(k).provider
  IN /\ call[k].phase = "next"
     /\ Len(call[k].tried) < Len(call[k].chain)
     /\ call[k].role # "search" => p \notin Unavailable
     /\ built' = IF call[k].role = "search" THEN built ELSE built \union {p}
     /\ call' = [call EXCEPT ![k].phase = "asked"]
     /\ UNCHANGED faults

\* Bug: LLMRouter passes over an empty answer.
AfterSkipsEmpty(role, outcome) ==
  CASE outcome = "text"      -> "answered"
    [] outcome = "transient" -> IF role \in {"vs", "search"} THEN "next"
                                ELSE "pause"
    [] outcome = "other"     -> IF role = "search" THEN "next" ELSE "raised"
    [] OTHER                 -> "next"

\* What the handlers of the three loops make of an outcome.  LLMRouter
\* returns any response and catches LLMError only; embed goes on without a
\* pause; SearchChain catches everything and passes over an empty answer.
After(role, outcome) ==
  CASE outcome = "text"      -> "answered"
    [] outcome = "empty"     -> IF role = "search" THEN "next" ELSE "answered"
    [] outcome = "transient" -> IF role \in {"vs", "search"} THEN "next"
                                ELSE "pause"
    [] outcome = "fatal"     -> "next"
    [] outcome = "other"     -> IF role = "search" THEN "next" ELSE "raised"

\* The request of the candidate ends.
Respond(k, outcome) ==
  /\ call[k].phase = "asked"
  /\ Move(k, After(call[k].role, outcome), outcome)
  /\ UNCHANGED <<built, faults>>

\* asyncio.sleep, after the last candidate too.
PauseEnds(k) ==
  /\ call[k].phase = "pause"
  /\ call' = [call EXCEPT ![k].phase = "next"]
  /\ UNCHANGED <<built, faults>>

\* LLMError, or no hits.
Exhausted(k) ==
  /\ call[k].phase = "next"
  /\ Len(call[k].tried) = Len(call[k].chain)
  /\ call' = [call EXCEPT ![k].phase = "exhausted"]
  /\ UNCHANGED <<built, faults>>

ChainStep(k) ==
  \/ Skip(k) \/ Ask(k) \/ PauseEnds(k) \/ Exhausted(k)
  \/ \E outcome \in Outcomes \ {"unavailable"} : Respond(k, outcome)

-----------------------------------------------------------------------------
(* Properties                                                              *)

\* The first candidate that answers is the one whose answer is used: all the
\* others before it were tried and failed, and none is tried after it; an
\* exhausted call has tried every candidate of its role and modality.
FirstAnswerWins ==
  \A k \in Call :
    LET c == call[k]
        answers(n) == \/ c.tried[n] = "text"
                      \/ c.tried[n] = "empty" /\ c.role # "search"
    IN /\ \A n \in DOMAIN c.tried :
            answers(n) => /\ n = Len(c.tried)
                          /\ c.phase = "answered"
       /\ c.phase = "answered" => c.tried # <<>> /\ answers(Len(c.tried))
       /\ c.phase = "exhausted" => Len(c.tried) = Len(c.chain)

\* "LLMError: Every candidate failed" (generate_with_fallback): no call gives
\* up while a candidate is left.
AllTriedBeforeGivingUp ==
  \A k \in Call :
    call[k].phase \in {"exhausted", "raised"} =>
      Len(call[k].tried) = Len(call[k].chain)
=============================================================================
