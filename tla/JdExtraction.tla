--------------------------- MODULE JdExtraction ---------------------------
(***************************************************************************)
(* The extraction of a posting: the cascade of doors of extract_job in     *)
(* core_engine/jd_extractor.py, with the redirects of jd_fetch.py, the     *)
(* four section calls and the gap-fill call under their token budget, and  *)
(* the snapshot it stores.                                                 *)
(*                                                                         *)
(* A url's extractions follow one another here; their interleavings and    *)
(* the jobs rows are those of JobFreshness.  An extraction is one          *)
(* transaction, and the router's own are savepoints in it: whatever raises *)
(* undoes all of it, the usage, error and breaker rows of its LLM calls    *)
(* included.  What the web, an ATS and the browser answer is chosen anew   *)
(* at every request.                                                       *)
(***************************************************************************)
EXTENDS JdDoors, FiniteSets

CONSTANTS
    Routes,        \* what classify_url may say of the url
    Boards,        \* the lists of postings an ATS may answer with
    Pages,         \* the bodies a request may get, from the web or the browser
    Urls, Asked,   \* where redirects may lead, and the url asked for
    MaxRedirects,
    TokenBudget, Headroom, SectionLimit, SystemTokens,
    Usages,        \* the tokens a provider may report for a call, 0 when it reports none
    Answers,       \* the sets of fields an answer may have a value for
    MaxCalls,
    MaxStored      \* bound: no extraction begins with more snapshots stored

Sections == <<"header_core", "responsibilities", "skills", "good_to_have">>
Hashes == Urls \X Pages

ASSUME RouteAssumption == Routes \subseteq
    [platform : {"greenhouse", "lever", "generic"}, slug : BOOLEAN, asked : PostingIds \cup {NoId}]
ASSUME WebAssumption ==
    /\ Pages \subseteq Page /\ Asked \in Urls /\ Answers \subseteq SUBSET Fields
    /\ Boards \subseteq Seq(Posting) /\ NoId \notin PostingIds
ASSUME NumberAssumption ==
    /\ {TokenBudget, Headroom, SectionLimit, SystemTokens, MaxRedirects, ShellText} \subseteq Nat
    /\ Usages \subseteq Nat /\ MaxCalls = Len(Sections) + 1

VARIABLES
    route,
    cache,     \* JD_CACHE_ENABLED
    snapshot,  \* job_snapshots, as committed, by content_hash
    run        \* the locals of the extraction under way

vars == <<route, cache, snapshot, run>>
world == <<route, cache>>

Doors == {"door1", "door2", "door4", "door5"}

NoPage == [text |-> 0, marker |-> FALSE, flagged |-> FALSE, node |-> NoJobPosting, parses |-> TRUE]
NoSnapshot == [ld |-> FALSE]

PCs == {"idle", "lookup", "door1", "hop", "gate35", "door4", "section", "door5", "gate", "persist"}

(***************************************************************************)
(* cleaned: the page cleaned_text is from; hashed: the one hash_body is    *)
(* from; next: the section to ask for.  Histories: offered, the fields a   *)
(* door had a value for; spent, what the calls have cost: the usage that   *)
(* was reported for an answer, the planned prompt of a call that nobody    *)
(* answered.                                                               *)
(***************************************************************************)
Run == [pc : PCs, acc : [Fields -> Values], offered : [Doors -> SUBSET Fields],
        hops : 0..(MaxRedirects + 1), url : Urls, cleaned : Pages \cup {NoPage},
        hashed : Pages \cup {NoPage}, ld : BOOLEAN, next : 1..(Len(Sections) + 1),
        used : Nat, spent : Nat, calls : 0..MaxCalls]

Blank == [pc |-> "idle", acc |-> Nothing, offered |-> [d \in Doors |-> {}],
          hops |-> 0, url |-> Asked, cleaned |-> NoPage, hashed |-> NoPage, ld |-> FALSE,
          next |-> 1, used |-> 0, spent |-> 0, calls |-> 0]

\* duties: whether it has responsibilities or skills.
Snapshot == [ld : BOOLEAN, duties : BOOLEAN, cleaned : Pages]

TypeOK ==
    /\ route \in Routes /\ cache \in BOOLEAN
    /\ snapshot \in [Hashes -> Snapshot \cup {NoSnapshot}]
    /\ run \in Run

Init ==
    /\ route \in Routes /\ cache \in BOOLEAN
    /\ snapshot = [h \in Hashes |-> NoSnapshot]
    /\ run = Blank

Stored == {h \in Hashes : snapshot[h] # NoSnapshot}

At(pc) == run.pc = pc
Becomes(locals) == run' = locals /\ UNCHANGED <<world, snapshot>>
Goes(pc) == Becomes([run EXCEPT !.pc = pc])

\* The payload of the extraction.
Payload == [ld |-> run.ld, duties |-> IsPlausiblePosting(run.acc, FALSE), cleaned |-> run.cleaned]

\* What is raised goes to the caller, and the transaction rolls back.
Raises == Becomes(Blank)

Begin ==
    /\ At("idle") /\ Cardinality(Stored) <= MaxStored
    /\ Goes(IF cache THEN "lookup" ELSE "door1")

\* find_snapshot_by_source_url, where source_url is an extraction's final url.
Lookup ==
    /\ At("lookup")
    /\ IF \E h \in Stored : h[1] = Asked THEN Becomes(Blank) ELSE Goes("door1")

(***************************************************************************)
(* Door 1.  A lookup that fails leaves everything to the page; a transport *)
(* error of the list, or a Greenhouse list that is no JSON, raises.  A     *)
(* posting has neither responsibilities nor skills, so the page is always  *)
(* fetched as well, and its body takes the place of the posting's.         *)
(***************************************************************************)
Singles == {NoPosting} \cup {p \in UNION {{b[i] : i \in DOMAIN b} : b \in Boards} : p.id = route.asked}

Door1 ==
    /\ At("door1")
    /\ \/ Goes("hop")
       \/ /\ route.slug
          /\ \E single \in Singles, board \in Boards :
                LET p == [greenhouse |-> GreenhousePosting(route.asked, single, board),
                          lever |-> LeverPosting(route.asked, single, board),
                          generic |-> NoPosting][route.platform]
                    fields == IF route.platform = "lever" THEN LeverFields(route.asked, p)
                              ELSE GreenhouseFields(route.asked, p)
                IN /\ p # NoPosting
                   /\ Becomes([run EXCEPT !.pc = "hop", !.acc = fields,
                                          !.offered["door1"] = Filled(fields)])

(***************************************************************************)
(* fetch_http: at most MaxRedirects + 1 requests, each to a url that was   *)
(* checked just before.  A 404, another error status, a refused url and a  *)
(* transport error raise; a redirect without Location is an answer.        *)
(***************************************************************************)
\* Mutant: the redirects are not counted.
RedirectForEver ==
    /\ At("hop")
    /\ \E u \in Urls : Becomes([run EXCEPT !.url = u])

\* Mutant: one request more.
RedirectOnceMore ==
    /\ At("hop") /\ run.hops <= MaxRedirects + 1
    /\ \E u \in Urls : Becomes([run EXCEPT !.hops = @ + 1, !.url = u])

Redirect ==
    /\ At("hop") /\ run.hops <= MaxRedirects
    /\ \E u \in Urls : Becomes([run EXCEPT !.hops = @ + 1, !.url = u])

TooManyRedirects == At("hop") /\ run.hops > MaxRedirects /\ Raises

\* Mutant: Door 2 overwrites what Door 1 found.
ReadOver(p, origin, url, pc) ==
    LET found == JsonLd(p.node, origin) IN
    [run EXCEPT !.pc = pc, !.url = url, !.hops = 0, !.cleaned = p, !.hashed = p,
                !.ld = @ \/ JsonLdFound(p.node), !.acc = MergeOver(@, found),
                !.offered["door2"] = @ \cup Filled(found)]

\* Doors 2 and 3 on the body p.
Read(p, origin, url, pc) ==
    LET found == JsonLd(p.node, origin) IN
    [run EXCEPT !.pc = pc, !.url = url, !.hops = 0, !.cleaned = p, !.hashed = p,
                !.ld = @ \/ JsonLdFound(p.node), !.acc = FillGaps(@, found),
                !.offered["door2"] = @ \cup Filled(found)]

Answer ==
    /\ At("hop") /\ run.hops <= MaxRedirects
    /\ \E p \in Pages : IF p.parses THEN Becomes(Read(p, "ld", run.url, "gate35")) ELSE Raises

(***************************************************************************)
(* Gate 3.5: a shell is rendered, and the rendered page is taken if it has *)
(* more text.  Whatever fails on the way is ignored: a rendered JSON-LD    *)
(* that raises does so after the text and the url were taken, and the hash *)
(* stays that of the fetched body.                                         *)
(***************************************************************************)
Shown(p, u) == IF p.parses THEN Read(p, "shown", u, "door4")
               ELSE [run EXCEPT !.pc = "door4", !.url = u, !.cleaned = p]

\* Mutant: the text is scanned before the page is rendered.
Gate35Scanned ==
    /\ At("gate35")
    /\ \/ Goes("door4")
       \/ /\ LooksLikeJsShell(run.cleaned) /\ ~run.cleaned.flagged
          /\ \E p \in Pages, u \in Urls :
                p.text > run.cleaned.text /\ Becomes([Shown(p, u) EXCEPT !.pc = "section"])

\* Mutant: the hash is taken before the text and the JSON-LD.
Gate35HashesFirst ==
    /\ At("gate35")
    /\ \/ Goes("door4")
       \/ /\ LooksLikeJsShell(run.cleaned)
          /\ \E p \in Pages, u \in Urls :
                /\ p.text > run.cleaned.text
                /\ Becomes(IF p.parses THEN Shown(p, u) ELSE [run EXCEPT !.pc = "door4", !.hashed = p])

Gate35 ==
    /\ At("gate35")
    /\ \/ Goes("door4")
       \/ /\ LooksLikeJsShell(run.cleaned)
          /\ \E p \in Pages, u \in Urls : p.text > run.cleaned.text /\ Becomes(Shown(p, u))

(***************************************************************************)
(* Door 4 under _BudgetTracker: used is the tokens charged so far.         *)
(***************************************************************************)
Planned == (IF run.cleaned.text < SectionLimit THEN run.cleaned.text ELSE SectionLimit) + SystemTokens
Fits == run.used + Planned + Headroom <= TokenBudget
Over(tokens) == run.used + tokens + Headroom > TokenBudget

\* check_for_prompt_injection.
Door4 == At("door4") /\ Goes(IF run.cleaned.flagged \/ run.cleaned.text = 0 THEN "door5" ELSE "section")

\* The locals after a call of a door that was charged tokens, had this cost and
\* gave these fields.
Called(door, origin, tokens, cost, fields) ==
    [run EXCEPT !.used = @ + tokens, !.spent = @ + cost, !.calls = @ + 1,
                !.acc = MergeOver(@, [f \in Fields |-> IF f \in fields THEN origin ELSE "none"]),
                !.offered[door] = @ \cup fields]

AfterSection(locals) ==
    [locals EXCEPT !.next = run.next + 1, !.pc = IF run.next = Len(Sections) THEN "door5" ELSE "section"]

SectionAnswers == {a \cap SectionFields[Sections[run.next]] : a \in Answers}

OutOfBudget == At("section") /\ (~Fits \/ run.calls >= MaxCalls) /\ Raises

\* Mutant: a call that no provider answered is charged nothing.
SectionUncharged ==
    /\ At("section") /\ Fits /\ run.calls < MaxCalls
    /\ \/ Becomes(AfterSection(Called("door4", "llm", 0, Planned, {})))
       \/ \E tokens \in Usages, fields \in SectionAnswers :
             IF Over(tokens) THEN Raises
             ELSE Becomes(AfterSection(Called("door4", "llm", tokens, tokens, fields)))

(***************************************************************************)
(* _run_door4_section.  A router that raises is charged what was planned,  *)
(* an answer what its provider reports (nothing for the providers that the *)
(* router failed over from); what that overdraws raises.  A refusal, an    *)
(* unparsable answer and one its model rejects give no field; an answer    *)
(* that is a JSON list raises.                                             *)
(***************************************************************************)
Section ==
    /\ At("section") /\ Fits /\ run.calls < MaxCalls
    /\ \E tokens \in {Planned} \cup Usages, fields \in SectionAnswers :
          /\ fields # {} => tokens \in Usages
          /\ IF Over(tokens) THEN Raises
             ELSE Becomes(AfterSection(Called("door4", "llm", tokens, tokens, fields)))

(***************************************************************************)
(* Door 5: one call if a critical field is missing and the budget allows.  *)
(* What its accrue raises is taken for a router error, and the answer that *)
(* overdrew is dropped; any other is merged as it is, over everything,     *)
(* fields that were not missing and values of a wrong type included.       *)
(***************************************************************************)
Door5Asks == MissingCriticals(run.acc) # {} /\ run.cleaned.text > 0 /\ ~run.cleaned.flagged /\ Fits

AfterDoor5(locals) == [locals EXCEPT !.pc = "gate"]

Door5 ==
    /\ At("door5")
    /\ IF ~Door5Asks THEN Goes("gate")
       ELSE \/ Becomes(AfterDoor5(Called("door5", "gap", 0, Planned, {})))
            \/ \E tokens \in Usages, origin \in {"gap", "bad"}, answer \in Answers :
                  LET fields == IF Over(tokens) THEN {} ELSE answer IN
                  Becomes(AfterDoor5(Called("door5", origin, tokens, tokens, fields)))

\* Mutant: without the gate of D43.
GateOpen == At("gate") /\ IF Valid(run.acc) THEN Goes("persist") ELSE Raises

\* StructuredJD, then D43.
Gate ==
    /\ At("gate")
    /\ IF Valid(run.acc) /\ IsPlausiblePosting(run.acc, run.ld) THEN Goes("persist") ELSE Raises

\* upsert_snapshot, ON CONFLICT DO NOTHING; then the job, its audits, the commit.
Persist ==
    /\ At("persist")
    /\ snapshot' = [snapshot EXCEPT ![<<run.url, run.hashed>>] =
                       IF @ = NoSnapshot THEN Payload ELSE @]
    /\ run' = Blank
    /\ UNCHANGED world

\* Everything else that raises, and the death of the server.
Abort == ~At("idle") /\ Raises

Step ==
    \/ Lookup \/ Door1 \/ Redirect \/ TooManyRedirects \/ Answer \/ Gate35
    \/ Door4 \/ OutOfBudget \/ Section \/ Door5 \/ Gate \/ Persist

Next == Begin \/ Step \/ Abort

Spec == Init /\ [][Next]_vars

\* Every await has a timeout of its own.
FairSpec == Spec /\ WF_vars(Step)
-----------------------------------------------------------------------------
\* The doors whose values win over this one's.
Stronger(door) == [door1 |-> {"door4", "door5"}, door2 |-> {"door1", "door4", "door5"},
                   door4 |-> {"door5"}, door5 |-> {}][door]

(***************************************************************************)
(* D30 and D40: the gap-fill's value wins over a section's, a section's    *)
(* over Door 1's, Door 1's over Door 2's, and no later door empties a      *)
(* field an earlier one had.  A salary is one key: without a currency it   *)
(* still keeps Door 2's out.  A date that Door 1 took as a number stays.   *)
(***************************************************************************)
Precedence == \A f \in Fields :
    LET best(door) == /\ f \in run.offered[door]
                      /\ \A d \in Stronger(door) : f \notin run.offered[d]
        kept == run.acc[f]
    IN /\ best("door5") => kept \in {"gap", "bad"}
       /\ best("door4") => kept = "llm"
       /\ best("door1") => kept \in {"ats", "stray"} \/ (f = "posted" /\ kept = "bad")
       /\ best("door2") => kept \in {"ld", "shown"} \/ (f = "currency" /\ kept \in {"null", "bad"})

(***************************************************************************)
(* D45: no router call is begun unless all that the calls before it cost,  *)
(* its own prompt and the headroom fit the budget together, the gap-fill's *)
(* included; and after a section the cost and the headroom still do        *)
(* (_BudgetTracker).  What providers do not report, and the prompts of     *)
(* those that the router failed over from, are in no cost.                 *)
(***************************************************************************)
CallsWithinBudget == [][run'.calls > run.calls =>
    /\ run.spent + Planned + Headroom <= TokenBudget
    /\ run'.pc # "gate" => run'.spent + Headroom <= TokenBudget]_vars

(***************************************************************************)
(* No text with an injection pattern is sent to a provider: the text that  *)
(* is scanned is the text that is sent, also of a rendered page.           *)
(***************************************************************************)
PromptsScanned == run.calls > 0 => ~run.cleaned.flagged

(***************************************************************************)
(* D43: every stored snapshot shows a posting, in JSON-LD or in duties or  *)
(* skills, also after Door 5 has merged what it liked.                     *)
(***************************************************************************)
StoredSnapshots == \A h \in Stored : snapshot[h].ld \/ snapshot[h].duties

\* Whether text may be the cleaned text of an extraction with this body's hash.
TextOf(text, body) == text = body \/ (LooksLikeJsShell(body) /\ text.text > body.text)

(***************************************************************************)
(* D28: a snapshot's text is that of the body its content_hash is of.      *)
(* Gate 3.5 can break off between the two; then that body was a shell, and *)
(* the text is of a rendering that has more to it.                         *)
(***************************************************************************)
TextIsOfHash == \A h \in Stored : TextOf(snapshot[h].cleaned, h[2])

(***************************************************************************)
(* Every extraction ends, whatever redirects and providers do.             *)
(***************************************************************************)
ExtractionEnds == []<>At("idle")
=============================================================================
