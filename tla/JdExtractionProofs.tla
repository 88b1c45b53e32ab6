------------------------- MODULE JdExtractionProofs -------------------------
(***************************************************************************)
(* Proofs about JdExtraction for any boards, pages, redirects, budget and  *)
(* answers.                                                                *)
(***************************************************************************)
EXTENDS JdExtraction, WellFoundedInduction, TLAPS

(***************************************************************************)
(* The inductive invariant.                                                *)
(***************************************************************************)
Early(r) == r.pc \in {"idle", "lookup", "door1"}

\* What the locals satisfy at each step of the cascade.
Stage(r) ==
    /\ Early(r) => r.acc = Nothing /\ \A d \in Doors : r.offered[d] = {}
    /\ Early(r) \/ r.pc \in {"hop", "gate35", "door4"} =>
          r.next = 1 /\ r.calls = 0 /\ r.spent = 0 /\ r.used = 0 /\ r.offered["door5"] = {}
    /\ ~Early(r) /\ r.pc # "hop" => r.cleaned \in Pages /\ r.hashed \in Pages
    /\ r.pc = "gate35" => r.cleaned = r.hashed
    /\ r.pc = "section" => r.next <= Len(Sections) /\ r.calls = r.next - 1 /\ ~r.cleaned.flagged
    /\ r.pc = "door5" => r.calls < MaxCalls
    /\ r.pc \in {"section", "door5"} => r.spent <= r.used /\ r.offered["door5"] = {}
    /\ r.pc = "persist" => IsPlausiblePosting(r.acc, r.ld)
    /\ r.calls > 0 => ~r.cleaned.flagged

\* A field no door offered is empty, or a currency that was given as null.
UnofferedEmpty(r) == \A f \in Fields :
    (\A d \in Doors : f \notin r.offered[d]) =>
        r.acc[f] = "none" \/ (f = "currency" /\ r.acc[f] = "null")

\* Precedence and TextIsOfHash, of any locals.
Ranked(r) == \A f \in Fields :
    /\ f \in r.offered["door5"] => r.acc[f] \in {"gap", "bad"}
    /\ f \in r.offered["door4"] /\ f \notin r.offered["door5"] => r.acc[f] = "llm"
    /\ f \in r.offered["door1"] /\ f \notin r.offered["door4"] /\ f \notin r.offered["door5"] =>
          r.acc[f] \in {"ats", "stray"} \/ (f = "posted" /\ r.acc[f] = "bad")
    /\ /\ f \in r.offered["door2"] /\ f \notin r.offered["door1"]
       /\ f \notin r.offered["door4"] /\ f \notin r.offered["door5"]
       => r.acc[f] \in {"ld", "shown"} \/ (f = "currency" /\ r.acc[f] \in {"null", "bad"})

Whole(r) == ~Early(r) /\ r.pc # "hop" => TextOf(r.cleaned, r.hashed)

RunOK(r) == r \in Run /\ Stage(r) /\ UnofferedEmpty(r) /\ Ranked(r) /\ Whole(r)

ExInv ==
    /\ route \in Routes /\ cache \in BOOLEAN
    /\ snapshot \in [Hashes -> Snapshot \cup {NoSnapshot}]
    /\ RunOK(run)
    /\ StoredSnapshots
    /\ TextIsOfHash
-----------------------------------------------------------------------------
(***************************************************************************)
(* What the doors return.                                                  *)
(***************************************************************************)
LEMMA LeastIndex ==
    ASSUME NEW S \in SUBSET Nat, S # {}
    PROVE  \E i \in S : \A j \in S : i <= j
  <1>1. IsWellFoundedOn(OpToRel(<, Nat), Nat)
    BY NatLessThanWellFounded
  <1>2. \E i \in S : \A j \in S : <<j, i>> \notin OpToRel(<, Nat)
    BY <1>1, WFMin
  <1>3. ASSUME NEW i \in S, NEW j \in S, j < i
        PROVE  <<j, i>> \in OpToRel(<, Nat)
    <2>1. <<j, i>> \in Nat \X Nat /\ <<j, i>>[1] < <<j, i>>[2]
      BY <1>3
    <2> QED BY <2>1, Zenon DEF OpToRel
  <1>4. \E i \in S : \A j \in S : ~(j < i)
    BY <1>2, <1>3, Zenon
  <1> QED BY <1>4

LEMMA PickType ==
    ASSUME NEW board \in Seq(Posting), NEW matches \in SUBSET DOMAIN board
    PROVE  Pick(board, matches) \in Posting \cup {NoPosting}
  <1>1. CASE matches = {}
    BY <1>1 DEF Pick
  <1>2. CASE matches # {}
    <2>1. matches \subseteq Nat
      OBVIOUS
    <2>2. PICK i \in matches : \A j \in matches : i <= j
      BY <1>2, <2>1, LeastIndex
    <2>3. (CHOOSE k \in matches : \A j \in matches : k <= j) \in matches
      BY <2>2
    <2> QED BY <1>2, <2>3 DEF Pick
  <1> QED BY <1>1, <1>2

LEMMA PostingType ==
    ASSUME NEW asked, NEW board \in Seq(Posting), NEW single \in Posting \cup {NoPosting}
    PROVE  /\ GreenhousePosting(asked, single, board) \in Posting \cup {NoPosting}
           /\ LeverPosting(asked, single, board) \in Posting \cup {NoPosting}
  <1>1. /\ DOMAIN board \in SUBSET DOMAIN board
        /\ Exactly(asked, board) \in SUBSET DOMAIN board
        /\ Citing(asked, board) \in SUBSET DOMAIN board
    BY DEF Exactly, Citing
  <1>2. \A m \in SUBSET DOMAIN board : Pick(board, m) \in Posting \cup {NoPosting}
    BY PickType
  <1> QED BY <1>1, <1>2 DEF GreenhousePosting, LeverPosting

\* What a door offers, each value being one that good allows.
Empty(found, f) == found[f] = "none" \/ (f = "currency" /\ found[f] = "null")

AtsValue(found, f) == found[f] \in {"ats", "stray"} \/ (f = "posted" /\ found[f] = "bad")
LdValue(found, f) == found[f] \in {"ld", "shown"} \/ (f = "currency" /\ found[f] = "bad")

AtsOffer(found) == /\ found \in [Fields -> Values]
                   /\ \A f \in Fields : AtsValue(found, f) \/ Empty(found, f)
LdOffer(found) == /\ found \in [Fields -> Values]
                  /\ \A f \in Fields : LdValue(found, f) \/ Empty(found, f)

LEMMA OffersFilled ==
    ASSUME NEW found
    PROVE  \A f \in Fields : /\ AtsValue(found, f) => f \in Filled(found)
                             /\ LdValue(found, f) => f \in Filled(found)
                             /\ Empty(found, f) => f \notin Filled(found)
  BY DEF AtsValue, LdValue, Empty, Filled, HasValue

LEMMA AtsOffers ==
    ASSUME NEW asked, NEW p \in Posting
    PROVE  AtsOffer(GreenhouseFields(asked, p)) /\ AtsOffer(LeverFields(asked, p))
  <1> DEFINE g == GreenhouseFields(asked, p)
             l == LeverFields(asked, p)
             date == [none |-> "none", text |-> Origin(asked, p), number |-> "bad"][p.posted]
  <1>1. /\ Origin(asked, p) \in {"ats", "stray"} /\ p.salary \in {"none", "null", "value"}
        /\ p.posted \in {"none", "text", "number"}
    BY DEF Origin, Posting
  <1>2. date \in {"ats", "stray", "none", "bad"}
    BY <1>1
  <1>3. g = [Nothing EXCEPT !["title"] = IF p.titled THEN Origin(asked, p) ELSE "none",
                            !["company"] = Origin(asked, p), !["posted"] = date]
    BY DEF GreenhouseFields
  <1> HIDE DEF date, g
  <1>4. /\ g \in [Fields -> Values]
        /\ \A f \in Fields : g[f] \in {"ats", "stray", "none"} \/ (f = "posted" /\ g[f] = "bad")
    BY <1>1, <1>2, <1>3 DEF Nothing, Values, Fields
  <1>5. AtsOffer(g)
    BY <1>4 DEF AtsOffer, AtsValue, Empty
  <1>6. l = [g EXCEPT !["currency"] = IF p.salary = "value" THEN Origin(asked, p) ELSE p.salary]
    BY DEF LeverFields, g
  <1> HIDE DEF l
  <1>7. l \in [Fields -> Values] /\ l["currency"] \in {"ats", "stray", "none", "null"}
    BY <1>1, <1>4, <1>6 DEF Values, Fields
  <1>8. \A f \in Fields : f # "currency" => l[f] = g[f]
    BY <1>4, <1>6
  <1>9. AtsOffer(l)
    BY <1>4, <1>7, <1>8 DEF AtsOffer, AtsValue, Empty
  <1> QED BY <1>5, <1>9 DEF g, l

LEMMA JsonLdOffers ==
    ASSUME NEW node \in JobPosting, NEW origin \in {"ld", "shown"}
    PROVE  LdOffer(JsonLd(node, origin))
  <1> DEFINE j == JsonLd(node, origin)
  <1>1. JsonLdSalary(node, origin) \in {"none", "null", "bad", origin}
    BY DEF JsonLdSalary, JobPosting
  <1>2. "currency" \notin node.texts
    BY DEF JobPosting
  <1>3. j \in [Fields -> Values] /\ \A f \in Fields : LdValue(j, f) \/ Empty(j, f)
    BY <1>1, <1>2 DEF JsonLd, Values, LdValue, Empty
  <1> HIDE DEF j
  <1> QED BY <1>3 DEF LdOffer, j
-----------------------------------------------------------------------------
LEMMA SectionsAreFour == Len(Sections) = 4 /\ MaxCalls = 5
  BY NumberAssumption DEF Sections

LEMMA NumbersAreNat ==
    /\ TokenBudget \in Nat /\ Headroom \in Nat /\ SectionLimit \in Nat
    /\ SystemTokens \in Nat /\ MaxRedirects \in Nat
  BY NumberAssumption

LEMMA PageFacts ==
    ASSUME NEW p \in Pages
    PROVE  p.text \in Nat /\ p.node \in JobPosting /\ p.flagged \in BOOLEAN /\ p.parses \in BOOLEAN
  BY WebAssumption DEF Page

LEMMA BlankOK == RunOK(Blank)
  <1>1. Blank \in Run
    BY SectionsAreFour, WebAssumption, NumberAssumption DEF Blank, Run, PCs, Nothing, Values
  <1>2. Stage(Blank)
    BY DEF Blank, Stage, Early, Doors
  <1>3. UnofferedEmpty(Blank) /\ Ranked(Blank) /\ Whole(Blank)
    BY DEF Blank, UnofferedEmpty, Ranked, Whole, Early, Nothing, Doors
  <1> QED BY <1>1, <1>2, <1>3 DEF RunOK

\* Only the locals of the extraction change.
LEMMA RunStep ==
    ASSUME ExInv, NEW r, RunOK(r), Becomes(r)
    PROVE  ExInv'
  <1>1. run' = r /\ UNCHANGED <<world, snapshot>>
    BY DEF Becomes
  <1>2. RunOK(run)'
    BY <1>1 DEF RunOK, Stage, UnofferedEmpty, Ranked, Whole, Early, world
  <1>3. StoredSnapshots' /\ TextIsOfHash'
    BY <1>1 DEF ExInv, StoredSnapshots, TextIsOfHash, Stored
  <1> QED BY <1>1, <1>2, <1>3 DEF ExInv, world

LEMMA InitExtraction == Init => ExInv
  <1> SUFFICES ASSUME Init PROVE ExInv
    OBVIOUS
  <1>1. RunOK(run)
    BY BlankOK DEF Init
  <1>2. StoredSnapshots /\ TextIsOfHash
    BY DEF Init, StoredSnapshots, TextIsOfHash, Stored
  <1> QED BY <1>1, <1>2 DEF Init, ExInv
-----------------------------------------------------------------------------
(***************************************************************************)
(* The steps before the LLM calls.                                         *)
(***************************************************************************)
\* A step that does not touch what was merged or charged.
LEMMA GoesStep ==
    ASSUME ExInv, NEW pc \in PCs, Goes(pc), Stage([run EXCEPT !.pc = pc]),
           (~Early(run) /\ run.pc # "hop") \/ Early([run EXCEPT !.pc = pc]) \/ pc = "hop"
    PROVE  ExInv'
  <1> DEFINE r == [run EXCEPT !.pc = pc]
  <1>1. run \in Run /\ RunOK(run)
    BY DEF ExInv, RunOK
  <1>2. /\ r \in Run /\ r.acc = run.acc /\ r.offered = run.offered /\ r.pc = pc
        /\ r.cleaned = run.cleaned /\ r.hashed = run.hashed
    BY <1>1 DEF Run
  <1>3. Stage(r) /\ Becomes(r)
    BY DEF Goes
  <1> HIDE DEF r
  <1>4. RunOK(r)
    BY <1>1, <1>2, <1>3 DEF RunOK, UnofferedEmpty, Ranked, Whole, r
  <1> QED BY <1>3, <1>4, RunStep

LEMMA RaisesStep ==
    ASSUME ExInv, Raises
    PROVE  ExInv'
  BY BlankOK, RunStep DEF Raises

LEMMA BeginSteps ==
    ASSUME ExInv, Begin \/ Lookup
    PROVE  ExInv'
  <1>1. run \in Run /\ Stage(run)
    BY DEF ExInv, RunOK
  <1>2. CASE Becomes(Blank)
    BY <1>2, BlankOK, RunStep
  <1>3. ASSUME NEW pc \in {"lookup", "door1"}, Goes(pc), run.pc \in {"idle", "lookup"}
        PROVE  ExInv'
    <2>1. Stage([run EXCEPT !.pc = pc])
      BY <1>1, <1>3 DEF Stage, Early, Run
    <2>2. Early([run EXCEPT !.pc = pc]) /\ pc \in PCs
      BY <1>1, <1>3 DEF Early, Run, PCs
    <2> QED BY <1>3, <2>1, <2>2, GoesStep
  <1> QED BY <1>2, <1>3 DEF Begin, Lookup, At

LEMMA Door1Step ==
    ASSUME ExInv, Door1
    PROVE  ExInv'
  <1>1. /\ run \in Run /\ Stage(run) /\ run.pc = "door1" /\ route \in Routes
        /\ run.acc = Nothing /\ \A d \in Doors : run.offered[d] = {}
        /\ run.calls = 0
    BY DEF ExInv, RunOK, Door1, At, Stage, Early
  <1>2. CASE Goes("hop")
    <2>1. Stage([run EXCEPT !.pc = "hop"])
      BY <1>1 DEF Stage, Early, Run
    <2> QED BY <1>2, <2>1, GoesStep DEF PCs
  <1>3. ASSUME NEW found, AtsOffer(found),
               Becomes([run EXCEPT !.pc = "hop", !.acc = found, !.offered["door1"] = Filled(found)])
        PROVE  ExInv'
    <2> DEFINE r == [run EXCEPT !.pc = "hop", !.acc = found, !.offered["door1"] = Filled(found)]
    <2>1. Filled(found) \subseteq Fields /\ found \in [Fields -> Values]
      BY <1>3 DEF Filled, AtsOffer
    <2>2. r \in Run
      BY <1>1, <2>1 DEF Run, PCs, Doors
    <2>3. /\ r.pc = "hop" /\ r.acc = found /\ r.offered["door1"] = Filled(found)
          /\ r.offered["door2"] = {} /\ r.offered["door4"] = {} /\ r.offered["door5"] = {}
          /\ r.cleaned = run.cleaned /\ r.hashed = run.hashed /\ r.calls = 0
          /\ r.next = run.next /\ r.spent = run.spent /\ r.used = run.used
      BY <1>1 DEF Run, Doors
    <2>4. Becomes(r)
      BY <1>3
    <2> HIDE DEF r
    <2>5. Stage(r) /\ Whole(r)
      BY <1>1, <2>3 DEF Stage, Early, Whole
    <2>6. UnofferedEmpty(r) /\ Ranked(r)
      BY <1>3, <2>3, OffersFilled DEF AtsOffer, AtsValue, Empty, UnofferedEmpty, Ranked, Doors
    <2> QED BY <2>2, <2>4, <2>5, <2>6, RunStep DEF RunOK
  <1>4. ASSUME NEW single \in Singles, NEW board \in Boards
        PROVE  /\ GreenhousePosting(route.asked, single, board) \in Posting \cup {NoPosting}
               /\ LeverPosting(route.asked, single, board) \in Posting \cup {NoPosting}
    <2>1. board \in Seq(Posting)
      BY WebAssumption
    <2>2. single \in Posting \cup {NoPosting}
      BY WebAssumption DEF Singles
    <2> QED BY <2>1, <2>2, PostingType
  <1>5. CASE \E single \in Singles, board \in Boards :
                LET p == [greenhouse |-> GreenhousePosting(route.asked, single, board),
                          lever |-> LeverPosting(route.asked, single, board),
                          generic |-> NoPosting][route.platform]
                    fields == IF route.platform = "lever" THEN LeverFields(route.asked, p)
                              ELSE GreenhouseFields(route.asked, p)
                IN /\ p # NoPosting
                   /\ Becomes([run EXCEPT !.pc = "hop", !.acc = fields,
                                          !.offered["door1"] = Filled(fields)])
    <2>1. PICK single \in Singles, board \in Boards :
            \E p, found :
              /\ p = [greenhouse |-> GreenhousePosting(route.asked, single, board),
                      lever |-> LeverPosting(route.asked, single, board),
                      generic |-> NoPosting][route.platform]
              /\ found = IF route.platform = "lever" THEN LeverFields(route.asked, p)
                         ELSE GreenhouseFields(route.asked, p)
              /\ p # NoPosting
              /\ Becomes([run EXCEPT !.pc = "hop", !.acc = found, !.offered["door1"] = Filled(found)])
      BY <1>5
    <2>2. PICK p, found :
            /\ p = [greenhouse |-> GreenhousePosting(route.asked, single, board),
                    lever |-> LeverPosting(route.asked, single, board),
                    generic |-> NoPosting][route.platform]
            /\ found = IF route.platform = "lever" THEN LeverFields(route.asked, p)
                       ELSE GreenhouseFields(route.asked, p)
            /\ p # NoPosting
            /\ Becomes([run EXCEPT !.pc = "hop", !.acc = found, !.offered["door1"] = Filled(found)])
      BY <2>1
    <2>3. route.platform \in {"greenhouse", "lever", "generic"}
      BY <1>1, RouteAssumption
    <2>4. p \in Posting
      BY <1>4, <2>2, <2>3
    <2>5. AtsOffer(found)
      BY <2>2, <2>4, AtsOffers
    <2> QED BY <1>3, <2>2, <2>5
  <1> QED BY <1>2, <1>5 DEF Door1

LEMMA RedirectStep ==
    ASSUME ExInv, Redirect
    PROVE  ExInv'
  <1>1. run \in Run /\ RunOK(run) /\ run.pc = "hop" /\ run.hops <= MaxRedirects
    BY DEF ExInv, RunOK, Redirect, At
  <1>2. PICK u \in Urls : Becomes([run EXCEPT !.hops = @ + 1, !.url = u])
    BY DEF Redirect
  <1> DEFINE r == [run EXCEPT !.hops = @ + 1, !.url = u]
  <1>3. r \in Run
    <2>1. run.hops + 1 \in 0..(MaxRedirects + 1)
      BY <1>1, NumbersAreNat DEF Run
    <2> QED BY <1>1, <2>1 DEF Run
  <1>4. Stage(r) /\ UnofferedEmpty(r) /\ Ranked(r) /\ Whole(r)
    BY <1>1 DEF RunOK, Stage, Early, UnofferedEmpty, Ranked, Whole, Run
  <1> HIDE DEF r
  <1> QED BY <1>2, <1>3, <1>4, RunStep DEF RunOK, r

\* A body is read, fetched or rendered.
LEMMA ReadStep ==
    ASSUME ExInv, run.pc \in {"hop", "gate35"}, NEW p \in Pages, NEW u \in Urls,
           NEW origin \in {"ld", "shown"}, NEW pc \in {"gate35", "door4"},
           Becomes(Read(p, origin, u, pc))
    PROVE  ExInv'
  <1> DEFINE found == JsonLd(p.node, origin)
             r == Read(p, origin, u, pc)
  <1>1. run \in Run /\ RunOK(run) /\ LdOffer(found)
    BY PageFacts, JsonLdOffers DEF ExInv, RunOK
  <1> HIDE DEF found
  <1>2. JsonLdFound(p.node) \in BOOLEAN /\ Filled(found) \subseteq Fields /\ found \in [Fields -> Values]
    BY <1>1 DEF JsonLdFound, Filled, LdOffer
  <1>3. FillGaps(run.acc, found) \in [Fields -> Values]
    BY <1>1, <1>2 DEF FillGaps, Run
  <1>4. r \in Run
    <2> DEFINE ld == run.ld \/ JsonLdFound(p.node)
               acc == FillGaps(run.acc, found)
               offered == [run.offered EXCEPT !["door2"] = @ \cup Filled(found)]
    <2>1. ld \in BOOLEAN /\ acc \in [Fields -> Values] /\ 0 \in 0..(MaxRedirects + 1)
          /\ offered \in [Doors -> SUBSET Fields]
      BY <1>1, <1>2, <1>3, NumbersAreNat DEF Run, Doors
    <2>2. r = [run EXCEPT !.pc = pc, !.url = u, !.hops = 0, !.cleaned = p, !.hashed = p,
                          !.ld = ld, !.acc = acc, !.offered = offered]
      BY <1>1 DEF Read, found, Run
    <2> HIDE DEF ld, acc, offered, r
    <2> QED BY <1>1, <2>1, <2>2 DEF Run, PCs
  <1>5. /\ r.pc = pc /\ r.cleaned = p /\ r.hashed = p /\ r.acc = FillGaps(run.acc, found)
        /\ r.offered["door1"] = run.offered["door1"] /\ r.offered["door4"] = run.offered["door4"]
        /\ r.offered["door5"] = run.offered["door5"]
        /\ r.offered["door2"] = run.offered["door2"] \cup Filled(found)
        /\ r.next = run.next /\ r.calls = run.calls /\ r.spent = run.spent /\ r.used = run.used
    BY <1>1 DEF Read, found, Run, Doors
  <1> HIDE DEF r
  <1>6. Stage(r)
    BY <1>1, <1>5 DEF RunOK, Stage, Early
  <1>7. UnofferedEmpty(r) /\ Ranked(r)
    <2> SUFFICES ASSUME NEW f \in Fields
                 PROVE  /\ (\A d \in Doors : f \notin r.offered[d]) => Empty(r.acc, f)
                        /\ f \in r.offered["door5"] => r.acc[f] \in {"gap", "bad"}
                        /\ f \in r.offered["door4"] /\ f \notin r.offered["door5"] => r.acc[f] = "llm"
                        /\ /\ f \in r.offered["door1"]
                           /\ f \notin r.offered["door4"] /\ f \notin r.offered["door5"]
                           => AtsValue(r.acc, f)
                        /\ /\ f \in r.offered["door2"] /\ f \notin r.offered["door1"]
                           /\ f \notin r.offered["door4"] /\ f \notin r.offered["door5"]
                           => LdValue(r.acc, f) \/ (f = "currency" /\ r.acc[f] = "null")
      BY DEF UnofferedEmpty, Ranked, Empty, AtsValue, LdValue
    <2>1. r.acc[f] = IF run.acc[f] = "none" THEN found[f] ELSE run.acc[f]
      BY <1>5 DEF FillGaps
    <2>2. /\ f \in Filled(found) => LdValue(found, f)
          /\ f \notin Filled(found) => Empty(found, f)
      BY <1>1, OffersFilled DEF LdOffer
    <2> QED
      BY <1>1, <1>5, <2>1, <2>2
         DEF RunOK, UnofferedEmpty, Ranked, Empty, AtsValue, LdValue, Doors
  <1>8. Whole(r)
    BY <1>5 DEF Whole, TextOf
  <1> QED BY <1>4, <1>6, <1>7, <1>8, RunStep DEF RunOK, r

LEMMA WebSteps ==
    ASSUME ExInv, TooManyRedirects \/ Answer \/ Gate35 \/ OutOfBudget \/ Abort
    PROVE  ExInv'
  <1>1. CASE TooManyRedirects \/ OutOfBudget \/ Abort
    BY <1>1, RaisesStep DEF TooManyRedirects, OutOfBudget, Abort
  <1>2. CASE Answer
    <2>1. run.pc = "hop" /\ run.url \in Urls
      BY <1>2 DEF Answer, At, ExInv, RunOK, Run
    <2>2. PICK p \in Pages : Becomes(Read(p, "ld", run.url, "gate35")) \/ Raises
      BY <1>2 DEF Answer
    <2> QED BY <2>1, <2>2, ReadStep, RaisesStep
  <1>3. CASE Gate35
    <2>1. run.pc = "gate35" /\ run \in Run /\ RunOK(run) /\ run.cleaned = run.hashed
      BY <1>3 DEF Gate35, At, ExInv, RunOK, Stage
    <2>2. CASE Goes("door4")
      <3>1. Stage([run EXCEPT !.pc = "door4"])
        BY <2>1 DEF RunOK, Stage, Early, Run
      <3> QED BY <2>1, <2>2, <3>1, GoesStep DEF PCs, Early
    <2>3. ASSUME NEW p \in Pages, NEW u \in Urls, LooksLikeJsShell(run.cleaned),
                 p.text > run.cleaned.text, Becomes(Shown(p, u))
          PROVE  ExInv'
      <3>1. CASE p.parses
        BY <2>1, <2>3, <3>1, ReadStep DEF Shown
      <3>2. CASE ~p.parses
        <4> DEFINE r == [run EXCEPT !.pc = "door4", !.url = u, !.cleaned = p]
        <4>1. /\ r \in Run /\ r.acc = run.acc /\ r.offered = run.offered /\ r.pc = "door4"
              /\ r.cleaned = p /\ r.hashed = run.hashed /\ r.next = run.next /\ r.calls = run.calls
              /\ r.spent = run.spent /\ r.used = run.used
          BY <2>1 DEF Run, PCs
        <4>2. Becomes(r)
          BY <2>3, <3>2 DEF Shown
        <4> HIDE DEF r
        <4>3. Stage(r) /\ UnofferedEmpty(r) /\ Ranked(r)
          BY <2>1, <4>1 DEF RunOK, Stage, Early, UnofferedEmpty, Ranked
        <4>4. Whole(r)
          BY <2>1, <2>3, <4>1 DEF Whole, TextOf
        <4> QED BY <4>1, <4>2, <4>3, <4>4, RunStep DEF RunOK
      <3> QED BY <3>1, <3>2
    <2> QED BY <1>3, <2>2, <2>3 DEF Gate35
  <1> QED BY <1>1, <1>2, <1>3
-----------------------------------------------------------------------------
(***************************************************************************)
(* The LLM calls and the end.                                              *)
(***************************************************************************)
LEMMA Door4Step ==
    ASSUME ExInv, Door4
    PROVE  ExInv'
  <1>1. run.pc = "door4" /\ run \in Run /\ Stage(run)
    BY DEF Door4, At, ExInv, RunOK
  <1>2. CASE Goes("door5")
    <2>1. Stage([run EXCEPT !.pc = "door5"])
      BY <1>1, SectionsAreFour DEF Stage, Early, Run
    <2> QED BY <1>1, <1>2, <2>1, GoesStep DEF PCs, Early
  <1>3. CASE Goes("section") /\ ~run.cleaned.flagged
    <2>1. Stage([run EXCEPT !.pc = "section"])
      BY <1>1, <1>3, SectionsAreFour DEF Stage, Early, Run
    <2> QED BY <1>1, <1>3, <2>1, GoesStep DEF PCs, Early
  <1> QED BY <1>2, <1>3 DEF Door4

LEMMA PlannedFacts ==
    ASSUME run.cleaned \in Pages
    PROVE  Planned \in Nat /\ Planned <= SectionLimit + SystemTokens
  BY PageFacts, NumbersAreNat DEF Planned

LEMMA UsageFacts == \A tokens \in Usages : tokens \in Nat
  BY NumberAssumption

LEMMA AnswerFacts ==
    /\ \A fields \in Answers : fields \in SUBSET Fields
    /\ \A fields \in SectionAnswers : fields \in SUBSET Fields
    /\ {} \in SUBSET Fields
  BY WebAssumption DEF SectionAnswers

\* What a call leaves.
Leaves(c, door, origin, tokens, cost, fields) ==
    /\ c \in Run /\ c.pc = run.pc /\ c.next = run.next /\ c.cleaned = run.cleaned
    /\ c.hashed = run.hashed /\ c.ld = run.ld
    /\ c.used = run.used + tokens /\ c.spent = run.spent + cost /\ c.calls = run.calls + 1
    /\ \A f \in Fields : c.acc[f] = IF f \in fields THEN origin ELSE run.acc[f]
    /\ \A d \in Doors : c.offered[d] = IF d = door THEN run.offered[d] \cup fields ELSE run.offered[d]

LEMMA CalledFacts ==
    ASSUME run \in Run, run.cleaned \in Pages, run.calls < MaxCalls,
           NEW door \in {"door4", "door5"}, NEW origin \in {"llm", "gap", "bad"},
           NEW tokens \in Nat, NEW cost \in Nat, NEW fields \in SUBSET Fields
    PROVE  Leaves(Called(door, origin, tokens, cost, fields), door, origin, tokens, cost, fields)
  <1> DEFINE acc == MergeOver(run.acc, [f \in Fields |-> IF f \in fields THEN origin ELSE "none"])
             offered == [run.offered EXCEPT ![door] = @ \cup fields]
             c == [run EXCEPT !.used = run.used + tokens, !.spent = run.spent + cost,
                              !.calls = run.calls + 1, !.acc = acc, !.offered = offered]
  <1>1. /\ acc \in [Fields -> Values]
        /\ \A f \in Fields : acc[f] = IF f \in fields THEN origin ELSE run.acc[f]
    BY DEF MergeOver, HasValue, Values, Run
  <1>2. /\ offered \in [Doors -> SUBSET Fields]
        /\ \A d \in Doors : offered[d] = IF d = door THEN run.offered[d] \cup fields ELSE run.offered[d]
    BY DEF Run, Doors
  <1>3. run.used + tokens \in Nat /\ run.spent + cost \in Nat /\ run.calls + 1 \in 0..MaxCalls
    BY SectionsAreFour DEF Run
  <1>4. Called(door, origin, tokens, cost, fields) = c
    BY DEF Called, Run
  <1> HIDE DEF acc, offered
  <1>5. /\ c \in Run /\ c.pc = run.pc /\ c.next = run.next /\ c.cleaned = run.cleaned
        /\ c.hashed = run.hashed /\ c.ld = run.ld /\ c.acc = acc /\ c.offered = offered
        /\ c.used = run.used + tokens /\ c.spent = run.spent + cost /\ c.calls = run.calls + 1
    BY <1>1, <1>2, <1>3 DEF Run
  <1> HIDE DEF c
  <1> QED BY <1>1, <1>2, <1>4, <1>5 DEF Leaves

\* A call is made, and r is what the extraction goes on with.
LEMMA CalledStep ==
    ASSUME ExInv, run.pc \in {"section", "door5"}, run.calls < MaxCalls, ~run.cleaned.flagged,
           NEW door \in {"door4", "door5"}, NEW origin \in {"llm", "gap", "bad"},
           (door = "door4") <=> (origin = "llm"),
           NEW tokens \in Nat, NEW cost \in Nat, NEW fields \in SUBSET Fields,
           NEW pc \in {"section", "door5", "gate"}, NEW next \in 1..(Len(Sections) + 1),
           Becomes([Called(door, origin, tokens, cost, fields) EXCEPT !.next = next, !.pc = pc]),
           pc # "gate" => cost <= tokens /\ door = "door4",
           pc = "section" => next <= Len(Sections) /\ run.calls + 1 = next - 1,
           pc = "door5" => run.calls + 1 < MaxCalls
    PROVE  ExInv'
  <1> DEFINE c == Called(door, origin, tokens, cost, fields)
             r == [c EXCEPT !.next = next, !.pc = pc]
  <1>1. /\ run \in Run /\ RunOK(run) /\ run.cleaned \in Pages /\ run.hashed \in Pages
        /\ run.spent <= run.used /\ run.offered["door5"] = {} /\ TextOf(run.cleaned, run.hashed)
    BY DEF ExInv, RunOK, Stage, Whole, Early
  <1>2. Leaves(c, door, origin, tokens, cost, fields)
    BY <1>1, CalledFacts, Zenon
  <1> HIDE DEF c
  <1>3. /\ r \in Run /\ r.pc = pc /\ r.next = next /\ r.cleaned = c.cleaned /\ r.hashed = c.hashed
        /\ r.used = c.used /\ r.spent = c.spent /\ r.calls = c.calls /\ r.acc = c.acc
        /\ r.offered = c.offered
    BY <1>2 DEF Leaves, Run, PCs
  <1>4. Becomes(r)
    BY DEF c
  <1> HIDE DEF r
  <1>5. UnofferedEmpty(r) /\ Ranked(r)
    BY <1>1, <1>2, <1>3 DEF Leaves, RunOK, UnofferedEmpty, Ranked, Doors
  <1>6. run.used \in Nat /\ run.spent \in Nat
    BY <1>1 DEF Run
  <1>7. Whole(r)
    BY <1>1, <1>2, <1>3 DEF Leaves, Whole
  <1>8. Stage(r)
    BY <1>1, <1>2, <1>3, <1>6 DEF Leaves, RunOK, Stage, Early, Doors
  <1> QED BY <1>3, <1>4, <1>5, <1>7, <1>8, RunStep DEF RunOK

\* What a section's call leaves.
LEMMA SectionLeaves ==
    ASSUME run \in Run, run.pc = "section", run.cleaned \in Pages, run.calls < MaxCalls,
           NEW tokens \in Nat, NEW cost \in Nat, NEW fields \in SUBSET Fields
    PROVE  LET c == Called("door4", "llm", tokens, cost, fields)
           IN  /\ AfterSection(c).next = run.next + 1
               /\ AfterSection(c).pc = IF run.next = Len(Sections) THEN "door5" ELSE "section"
               /\ AfterSection(c).calls = run.calls + 1 /\ AfterSection(c).spent = run.spent + cost
               /\ AfterSection(c).acc = c.acc /\ c \in Run
  <1> DEFINE c == Called("door4", "llm", tokens, cost, fields)
  <1>1. c \in Run /\ c.calls = run.calls + 1 /\ c.spent = run.spent + cost
    BY CalledFacts DEF Leaves
  <1> HIDE DEF c
  <1>2. /\ AfterSection(c).next = run.next + 1
        /\ AfterSection(c).pc = IF run.next = Len(Sections) THEN "door5" ELSE "section"
        /\ AfterSection(c).calls = c.calls /\ AfterSection(c).spent = c.spent
        /\ AfterSection(c).acc = c.acc
    BY <1>1 DEF AfterSection, Run
  <1> QED BY <1>1, <1>2 DEF c

LEMMA SectionCalls ==
    ASSUME ExInv, Section
    PROVE  /\ run.pc = "section" /\ run \in Run /\ Stage(run) /\ Fits /\ run.calls < MaxCalls
           /\ run.cleaned \in Pages /\ ~run.cleaned.flagged /\ run.next \in 1..Len(Sections)
           /\ \E tokens \in Nat, fields \in SUBSET Fields :
                 \/ Raises
                 \/ /\ ~Over(tokens)
                    /\ Becomes(AfterSection(Called("door4", "llm", tokens, tokens, fields)))
  <1>1. /\ run.pc = "section" /\ run \in Run /\ Stage(run) /\ Fits /\ run.calls < MaxCalls
        /\ run.cleaned \in Pages /\ ~run.cleaned.flagged
    BY DEF Section, At, ExInv, RunOK, Stage, Early
  <1>2. run.next \in 1..Len(Sections)
    BY <1>1, SectionsAreFour DEF Stage, Run
  <1>3. PICK tokens \in {Planned} \cup Usages, fields \in SectionAnswers :
          IF Over(tokens) THEN Raises
          ELSE Becomes(AfterSection(Called("door4", "llm", tokens, tokens, fields)))
    BY DEF Section
  <1>4. tokens \in Nat /\ fields \in SUBSET Fields
    BY <1>1, PlannedFacts, UsageFacts, AnswerFacts
  <1> QED BY <1>1, <1>2, <1>3, <1>4

LEMMA SectionStep ==
    ASSUME ExInv, Section
    PROVE  ExInv'
  <1>1. /\ run.pc = "section" /\ run \in Run /\ Stage(run) /\ run.calls < MaxCalls
        /\ run.cleaned \in Pages /\ ~run.cleaned.flagged /\ run.next \in 1..Len(Sections)
    BY SectionCalls
  <1>2. PICK tokens \in Nat, fields \in SUBSET Fields :
          Raises \/ Becomes(AfterSection(Called("door4", "llm", tokens, tokens, fields)))
    BY SectionCalls
  <1>3. CASE Becomes(AfterSection(Called("door4", "llm", tokens, tokens, fields)))
    <2> DEFINE pc == IF run.next = Len(Sections) THEN "door5" ELSE "section"
    <2>1. Becomes([Called("door4", "llm", tokens, tokens, fields) EXCEPT !.next = run.next + 1, !.pc = pc])
      BY <1>3 DEF AfterSection
    <2>2. /\ pc = "section" => run.next + 1 <= Len(Sections) /\ run.calls + 1 = (run.next + 1) - 1
          /\ pc = "door5" => run.calls + 1 < MaxCalls
          /\ run.next + 1 \in 1..(Len(Sections) + 1)
      BY <1>1, SectionsAreFour DEF Stage
    <2>3. pc \in {"section", "door5"} /\ tokens <= tokens
      OBVIOUS
    <2> HIDE DEF pc
    <2> QED BY <1>1, <2>1, <2>2, <2>3, CalledStep
  <1> QED BY <1>2, <1>3, RaisesStep

\* Door 5 asks nobody, or makes one call and goes to the gate.
LEMMA Door5Calls ==
    ASSUME ExInv, Door5
    PROVE  /\ run.pc = "door5" /\ run \in Run /\ Stage(run) /\ run.cleaned \in Pages
           /\ run.calls < MaxCalls
           /\ \/ Goes("gate")
              \/ /\ Fits /\ ~run.cleaned.flagged
                 /\ \E origin \in {"gap", "bad"}, tokens \in Nat, cost \in Nat, fields \in SUBSET Fields :
                       Becomes(AfterDoor5(Called("door5", origin, tokens, cost, fields)))
  <1>1. /\ run.pc = "door5" /\ run \in Run /\ Stage(run) /\ run.cleaned \in Pages
        /\ run.calls < MaxCalls
    BY DEF Door5, At, ExInv, RunOK, Stage, Early
  <1>2. CASE ~Door5Asks
    BY <1>1, <1>2 DEF Door5
  <1>3. CASE Door5Asks
    <2>1. Fits /\ ~run.cleaned.flagged
      BY <1>3 DEF Door5Asks
    <2>2. CASE Becomes(AfterDoor5(Called("door5", "gap", 0, Planned, {})))
      <3>1. Planned \in Nat /\ 0 \in Nat
        BY <1>1, PlannedFacts
      <3>2. \E origin \in {"gap", "bad"}, tokens \in Nat, cost \in Nat, fields \in SUBSET Fields :
              Becomes(AfterDoor5(Called("door5", origin, tokens, cost, fields)))
        BY <2>2, <3>1, AnswerFacts, Zenon
      <3> QED BY <1>1, <2>1, <3>2
    <2>3. CASE \E tokens \in Usages, origin \in {"gap", "bad"}, answer \in Answers :
                  LET fields == IF Over(tokens) THEN {} ELSE answer IN
                  Becomes(AfterDoor5(Called("door5", origin, tokens, tokens, fields)))
      <3>1. PICK tokens \in Usages, origin \in {"gap", "bad"}, answer \in Answers :
              \E fields \in {{}, answer} :
                 Becomes(AfterDoor5(Called("door5", origin, tokens, tokens, fields)))
        BY <2>3, Zenon
      <3>2. tokens \in Nat /\ {} \in SUBSET Fields /\ answer \in SUBSET Fields
        BY UsageFacts, AnswerFacts
      <3>3. \E fields \in SUBSET Fields :
              Becomes(AfterDoor5(Called("door5", origin, tokens, tokens, fields)))
        BY <3>1, <3>2, Zenon
      <3>4. \E o \in {"gap", "bad"}, t \in Nat, cost \in Nat, fields \in SUBSET Fields :
              Becomes(AfterDoor5(Called("door5", o, t, cost, fields)))
        BY <3>2, <3>3, Zenon
      <3> QED BY <1>1, <2>1, <3>4
    <2> QED BY <1>3, <2>2, <2>3 DEF Door5
  <1> QED BY <1>2, <1>3

LEMMA Door5Step ==
    ASSUME ExInv, Door5
    PROVE  ExInv'
  <1>1. run.pc = "door5" /\ run \in Run /\ Stage(run) /\ run.cleaned \in Pages /\ run.calls < MaxCalls
    BY Door5Calls
  <1>2. CASE Goes("gate")
    <2>1. Stage([run EXCEPT !.pc = "gate"])
      BY <1>1 DEF Stage, Early, Run
    <2> QED BY <1>1, <1>2, <2>1, GoesStep DEF PCs, Early
  <1>3. CASE ~Goes("gate")
    <2>1. ~run.cleaned.flagged
      BY <1>3, Door5Calls
    <2>2. PICK origin \in {"gap", "bad"}, tokens \in Nat, cost \in Nat, fields \in SUBSET Fields :
            Becomes(AfterDoor5(Called("door5", origin, tokens, cost, fields)))
      BY <1>3, Door5Calls
    <2> DEFINE c == Called("door5", origin, tokens, cost, fields)
    <2>3. c.next = run.next /\ c \in Run /\ run.next \in 1..(Len(Sections) + 1)
      <3>1. \A o \in {"gap", "bad"} : o \in {"llm", "gap", "bad"}
        OBVIOUS
      <3>2. Leaves(c, "door5", origin, tokens, cost, fields)
        BY <1>1, <3>1, CalledFacts
      <3> HIDE DEF c
      <3> QED BY <1>1, <3>2 DEF Leaves, Run
    <2>4. [c EXCEPT !.pc = "gate"] = [c EXCEPT !.next = run.next, !.pc = "gate"]
      <3> HIDE DEF c
      <3> QED BY <2>3 DEF Run
    <2>5. Becomes([Called("door5", origin, tokens, cost, fields) EXCEPT !.next = run.next, !.pc = "gate"])
      BY <2>2, <2>4 DEF AfterDoor5
    <2> HIDE DEF c
    <2> QED BY <1>1, <2>1, <2>3, <2>5, CalledStep
  <1> QED BY <1>2, <1>3

LEMMA GateStep ==
    ASSUME ExInv, Gate
    PROVE  ExInv'
  <1>1. CASE Raises
    BY <1>1, RaisesStep
  <1>2. CASE Goes("persist") /\ IsPlausiblePosting(run.acc, run.ld)
    <2>1. run.pc = "gate" /\ run \in Run /\ Stage(run)
      BY DEF Gate, At, ExInv, RunOK
    <2>2. Stage([run EXCEPT !.pc = "persist"])
      BY <1>2, <2>1 DEF Stage, Early, Run
    <2> QED BY <1>2, <2>1, <2>2, GoesStep DEF PCs, Early
  <1> QED BY <1>1, <1>2 DEF Gate

LEMMA PersistStep ==
    ASSUME ExInv, Persist
    PROVE  ExInv'
  <1> DEFINE k == <<run.url, run.hashed>>
  <1>1. /\ run.pc = "persist" /\ run \in Run /\ Stage(run) /\ run.cleaned \in Pages
        /\ run.hashed \in Pages /\ TextOf(run.cleaned, run.hashed)
        /\ IsPlausiblePosting(run.acc, run.ld)
    BY DEF Persist, At, ExInv, RunOK, Stage, Early, Whole
  <1>2. Payload \in Snapshot /\ (Payload.ld \/ Payload.duties) /\ Payload.cleaned = run.cleaned
    BY <1>1 DEF Payload, Snapshot, IsPlausiblePosting, Run
  <1>3. k \in Hashes /\ k[2] = run.hashed
    BY <1>1 DEF Hashes, Run
  <1>4. snapshot' = [snapshot EXCEPT ![k] = IF @ = NoSnapshot THEN Payload ELSE @]
        /\ run' = Blank /\ UNCHANGED world
    BY DEF Persist
  <1> HIDE DEF k
  <1>5. /\ snapshot' \in [Hashes -> Snapshot \cup {NoSnapshot}]
        /\ \A h \in Hashes : snapshot'[h] = snapshot[h] \/ (h = k /\ snapshot'[h] = Payload)
    BY <1>2, <1>3, <1>4 DEF ExInv
  <1>6. StoredSnapshots' /\ TextIsOfHash'
    BY <1>1, <1>2, <1>3, <1>5 DEF ExInv, StoredSnapshots, TextIsOfHash, Stored
  <1>7. RunOK(run)'
    BY <1>4, BlankOK DEF RunOK, Stage, UnofferedEmpty, Ranked, Whole, Early, world
  <1> QED BY <1>4, <1>5, <1>6, <1>7 DEF ExInv, world

LEMMA NextExtraction ==
    ASSUME ExInv, [Next]_vars
    PROVE  ExInv'
  <1>1. CASE UNCHANGED vars
    BY <1>1 DEF ExInv, RunOK, Stage, UnofferedEmpty, Ranked, Whole, Early, StoredSnapshots,
       TextIsOfHash, Stored, vars
  <1> QED
    BY <1>1, BeginSteps, Door1Step, RedirectStep, WebSteps, Door4Step, SectionStep, Door5Step,
       GateStep, PersistStep
       DEF Next, Step

LEMMA Invariance == Spec => []ExInv
  <1>1. ExInv /\ [Next]_vars => ExInv'
    BY NextExtraction
  <1> QED BY <1>1, InitExtraction, PTL DEF Spec
-----------------------------------------------------------------------------
(***************************************************************************)
(* Type correctness: redirects and LLM calls stay within their caps.       *)
(***************************************************************************)
THEOREM ExtractionTypes == Spec => []TypeOK
  <1>1. ExInv => TypeOK
    BY DEF ExInv, RunOK, TypeOK
  <1> QED BY <1>1, Invariance, PTL

(***************************************************************************)
(* D30, D40: of two doors that have a field the stronger one's value stays.*)
(***************************************************************************)
THEOREM DoorsKeepRank == Spec => []Precedence
  <1>1. ExInv => Precedence
    BY DEF ExInv, RunOK, Ranked, Precedence, Stronger, Doors
  <1> QED BY <1>1, Invariance, PTL

(***************************************************************************)
(* D45: no call begins that the budget has no room for after all that the  *)
(* calls before it cost (_BudgetTracker): what is charged covers the cost  *)
(* up to the gap-fill, whose own charge nothing comes after.               *)
(***************************************************************************)
THEOREM BudgetHolds == Spec => CallsWithinBudget
  <1>1. ASSUME ExInv, [Next]_vars
        PROVE  [run'.calls > run.calls =>
                  /\ run.spent + Planned + Headroom <= TokenBudget
                  /\ run'.pc # "gate" => run'.spent + Headroom <= TokenBudget]_vars
    <2>1. run \in Run /\ Stage(run) /\ run.calls \in Nat /\ run.spent \in Nat /\ run.used \in Nat
      BY <1>1, SectionsAreFour DEF ExInv, RunOK, Run
    <2>2. CASE Section
      <3>1. /\ run.pc = "section" /\ Fits /\ run.calls < MaxCalls /\ run.cleaned \in Pages
        BY <1>1, <2>2, SectionCalls
      <3>2. PICK tokens \in Nat, fields \in SUBSET Fields :
              \/ Raises
              \/ /\ ~Over(tokens)
                 /\ Becomes(AfterSection(Called("door4", "llm", tokens, tokens, fields)))
        BY <1>1, <2>2, SectionCalls
      <3>3. run.spent <= run.used /\ Planned \in Nat
        BY <2>1, <3>1, PlannedFacts DEF Stage
      <3>4. run.spent + Planned + Headroom <= TokenBudget
        BY <2>1, <3>1, <3>3, NumbersAreNat DEF Fits
      <3>5. CASE Raises
        <4>1. run'.calls = 0
          BY <3>5 DEF Raises, Becomes, Blank
        <4> QED BY <2>1, <4>1
      <3>6. CASE ~Raises
        <4>1. run' = AfterSection(Called("door4", "llm", tokens, tokens, fields)) /\ ~Over(tokens)
          BY <3>2, <3>6 DEF Becomes
        <4>2. run'.spent = run.spent + tokens
          BY <2>1, <3>1, <4>1, SectionLeaves
        <4>3. run'.spent + Headroom <= TokenBudget
          BY <2>1, <3>3, <4>1, <4>2, NumbersAreNat DEF Over
        <4> QED BY <3>4, <4>3
      <3> QED BY <3>5, <3>6
    <2>3. CASE Door5
      <3>1. /\ run.pc = "door5" /\ run.cleaned \in Pages /\ run.calls < MaxCalls
        BY <1>1, <2>3, Door5Calls
      <3>2. CASE Goes("gate")
        BY <2>1, <3>2 DEF Goes, Becomes, Run
      <3>3. CASE ~Goes("gate")
        <4>1. Fits
          BY <1>1, <2>3, <3>3, Door5Calls
        <4>2. PICK origin \in {"gap", "bad"}, tokens \in Nat, cost \in Nat, fields \in SUBSET Fields :
                Becomes(AfterDoor5(Called("door5", origin, tokens, cost, fields)))
          BY <1>1, <2>3, <3>3, Door5Calls
        <4>3. Called("door5", origin, tokens, cost, fields) \in Run
          BY <2>1, <3>1, CalledFacts DEF Leaves
        <4>4. run'.pc = "gate"
          BY <4>2, <4>3 DEF Becomes, AfterDoor5, Run
        <4>5. run.spent <= run.used /\ Planned \in Nat
          BY <2>1, <3>1, PlannedFacts DEF Stage
        <4> QED BY <2>1, <4>1, <4>4, <4>5, NumbersAreNat DEF Fits
      <3> QED BY <3>2, <3>3
    <2>4. CASE ~Section /\ ~Door5 /\ Next
      <3>1. ASSUME NEW pc, Goes(pc) PROVE run'.calls = run.calls
        BY <2>1, <3>1 DEF Goes, Becomes, Run
      <3>2. ASSUME Raises \/ Becomes(Blank) \/ run' = Blank PROVE run'.calls = 0
        BY <3>2 DEF Raises, Becomes, Blank
      <3>3. ASSUME NEW p, NEW origin, NEW u, NEW pc, Becomes(Read(p, origin, u, pc))
            PROVE  run'.calls = run.calls
        BY <2>1, <3>3 DEF Becomes, Read, Run
      <3>4. ASSUME NEW p, NEW u, Becomes(Shown(p, u)) PROVE run'.calls = run.calls
        <4>1. CASE p.parses
          BY <3>3, <3>4, <4>1 DEF Shown
        <4>2. CASE ~p.parses
          BY <2>1, <3>4, <4>2 DEF Shown, Becomes, Run
        <4> QED BY <4>1, <4>2
      <3>5. ASSUME Door1 \/ Redirect PROVE run'.calls = run.calls
        BY <2>1, <3>5 DEF Door1, Redirect, Goes, Becomes, Run
      <3>6. CASE Begin \/ Lookup \/ Door4 \/ Gate \/ Answer \/ Gate35
        BY <2>1, <3>1, <3>2, <3>3, <3>4, <3>6 DEF Begin, Lookup, Door4, Gate, Answer, Gate35
      <3>7. CASE TooManyRedirects \/ OutOfBudget \/ Persist \/ Abort
        BY <2>1, <3>2, <3>7 DEF TooManyRedirects, OutOfBudget, Persist, Abort
      <3> QED BY <2>1, <2>4, <3>5, <3>6, <3>7 DEF Next, Step
    <2> QED BY <1>1, <2>2, <2>3, <2>4
  <1> QED BY <1>1, Invariance, PTL DEF Spec, CallsWithinBudget

(***************************************************************************)
(* What is sent to a provider was scanned (check_for_prompt_injection).    *)
(***************************************************************************)
THEOREM OnlyScannedIsSent == Spec => []PromptsScanned
  <1>1. ExInv => PromptsScanned
    BY DEF ExInv, RunOK, Stage, PromptsScanned
  <1> QED BY <1>1, Invariance, PTL

(***************************************************************************)
(* D43: a snapshot shows a posting (is_plausible_posting).                 *)
(***************************************************************************)
THEOREM SnapshotsArePostings == Spec => []StoredSnapshots
  <1>1. ExInv => StoredSnapshots
    BY DEF ExInv
  <1> QED BY <1>1, Invariance, PTL

(***************************************************************************)
(* D28: a snapshot's text is of its hash's body, or of a longer rendering  *)
(* of that shell (Gate 3.5).                                               *)
(***************************************************************************)
THEOREM TextMatchesHash == Spec => []TextIsOfHash
  <1>1. ExInv => TextIsOfHash
    BY DEF ExInv
  <1> QED BY <1>1, Invariance, PTL
-----------------------------------------------------------------------------
(***************************************************************************)
(* How much an extraction may still do: the safety half of ExtractionEnds. *)
(***************************************************************************)
Work(r) ==
    CASE r.pc = "lookup" -> MaxRedirects + 13
      [] r.pc = "door1" -> MaxRedirects + 12
      [] r.pc = "hop" -> (MaxRedirects + 11) - r.hops
      [] r.pc = "gate35" -> 9
      [] r.pc = "door4" -> 8
      [] r.pc = "section" -> 8 - r.next
      [] r.pc = "door5" -> 3
      [] r.pc = "gate" -> 2
      [] r.pc = "persist" -> 1
      [] OTHER -> 0

LEMMA WorkType ==
    ASSUME NEW r \in Run, Stage(r)
    PROVE  /\ Work(r) \in 0..(MaxRedirects + 13)
           /\ r.pc = "hop" => Work(r) \in 10..(MaxRedirects + 11)
           /\ r.pc = "section" => Work(r) \in 4..7
  <1>1. /\ r.pc \in PCs /\ MaxRedirects \in Nat /\ r.hops \in 0..(MaxRedirects + 1)
        /\ r.next \in 1..5 /\ (r.pc = "section" => r.next <= 4)
    BY NumbersAreNat, SectionsAreFour DEF Run, Stage
  <1>2. CASE r.pc = "hop"
    <2>1. Work(r) = (MaxRedirects + 11) - r.hops
      BY <1>2 DEF Work
    <2> QED BY <1>1, <1>2, <2>1
  <1>3. CASE r.pc = "section"
    <2>1. Work(r) = 8 - r.next
      BY <1>3 DEF Work
    <2> QED BY <1>1, <1>3, <2>1
  <1>4. CASE r.pc \notin {"hop", "section"}
    <2>1. Work(r) \in {0, 1, 2, 3, 8, 9, MaxRedirects + 12, MaxRedirects + 13}
      BY <1>1, <1>4 DEF Work, PCs
    <2> QED BY <1>1, <1>4, <2>1
  <1> QED BY <1>2, <1>3, <1>4

\* An extraction that raised or is stored has nothing left to do.
LEMMA BlankIsDone == Work(Blank) = 0
  BY DEF Work, Blank

\* Every step of an extraction leaves it less to do.
LEMMA StepIsLess ==
    ASSUME ExInv, Step
    PROVE  Work(run') < Work(run)
  <1>1. run \in Run /\ Stage(run) /\ MaxRedirects \in Nat
    BY NumbersAreNat DEF ExInv, RunOK
  <1>2. Work(run) \in Nat /\ (run.pc = "hop" => Work(run) >= 10) /\ (run.pc = "section" => Work(run) >= 4)
    BY <1>1, WorkType
  <1>3. ASSUME NEW pc \in PCs, Goes(pc)
        PROVE  run'.pc = pc /\ run'.next = run.next /\ run'.hops = run.hops
    BY <1>1, <1>3 DEF Goes, Becomes, Run
  <1>4. ASSUME Raises \/ Becomes(Blank), run.pc # "idle"
        PROVE  Work(run') < Work(run)
    <2>1. Work(run') = 0
      BY <1>4, BlankIsDone DEF Raises, Becomes
    <2>2. Work(run) # 0
      <3>1. run.pc \in PCs
        BY <1>1 DEF Run
      <3> QED BY <1>1, <1>2, <1>4, <3>1 DEF Work, PCs
    <2> QED BY <1>2, <2>1, <2>2
  <1>5. CASE Lookup
    <2>1. run.pc = "lookup" /\ Work(run) = MaxRedirects + 13
      BY <1>5 DEF Lookup, At, Work
    <2>2. ASSUME Goes("door1") PROVE Work(run') < Work(run)
      <3>1. Work(run') = MaxRedirects + 12
        BY <1>3, <2>2 DEF PCs, Work
      <3> QED BY <1>1, <2>1, <3>1
    <2> QED BY <1>4, <1>5, <2>1, <2>2 DEF Lookup
  <1>6. CASE Door1
    <2>1. run.pc = "door1" /\ Work(run) = MaxRedirects + 12
      BY <1>6 DEF Door1, At, Work
    <2>2. run'.pc = "hop" /\ run'.hops = run.hops
      <3>1. CASE Goes("hop")
        BY <1>3, <3>1 DEF PCs
      <3>2. CASE ~Goes("hop")
        <4>1. PICK acc, offered :
                 Becomes([run EXCEPT !.pc = "hop", !.acc = acc, !.offered["door1"] = offered])
          BY <1>6, <3>2 DEF Door1
        <4> QED BY <1>1, <4>1 DEF Becomes, Run
      <3> QED BY <3>1, <3>2
    <2>3. Work(run') = (MaxRedirects + 11) - run.hops
      BY <2>2 DEF Work
    <2>4. run.hops \in Nat
      BY <1>1 DEF Run
    <2> QED BY <1>1, <2>1, <2>3, <2>4
  <1>7. CASE Redirect
    <2>1. PICK u \in Urls : run' = [run EXCEPT !.hops = @ + 1, !.url = u]
      BY <1>7 DEF Redirect, Becomes
    <2>2. run.pc = "hop" /\ run'.pc = "hop" /\ run'.hops = run.hops + 1 /\ run.hops \in Nat
      BY <1>1, <1>7, <2>1 DEF Redirect, At, Run
    <2>3. Work(run) = (MaxRedirects + 11) - run.hops /\ Work(run') = (MaxRedirects + 11) - (run.hops + 1)
      BY <2>2 DEF Work
    <2> QED BY <1>1, <2>2, <2>3
  <1>8. CASE TooManyRedirects \/ OutOfBudget
    BY <1>4, <1>8 DEF TooManyRedirects, OutOfBudget, At
  <1>9. ASSUME NEW p, NEW origin, NEW u, NEW pc, Becomes(Read(p, origin, u, pc))
        PROVE  run'.pc = pc
    BY <1>1, <1>9 DEF Becomes, Read, Run
  <1>10. CASE Answer
    <2>1. run.pc = "hop"
      BY <1>10 DEF Answer, At
    <2>2. CASE Raises
      BY <1>4, <2>1, <2>2
    <2>3. CASE ~Raises
      <3>1. run'.pc = "gate35"
        BY <1>9, <1>10, <2>3 DEF Answer
      <3>2. Work(run') = 9
        BY <3>1 DEF Work
      <3> QED BY <1>2, <2>1, <3>2
    <2> QED BY <2>2, <2>3
  <1>11. CASE Gate35
    <2>1. ASSUME NEW p, NEW u, Becomes(Shown(p, u)) PROVE run'.pc = "door4"
      <3>1. CASE p.parses
        BY <1>9, <2>1, <3>1 DEF Shown
      <3>2. CASE ~p.parses
        BY <1>1, <2>1, <3>2 DEF Shown, Becomes, Run
      <3> QED BY <3>1, <3>2
    <2>2. run.pc = "gate35" /\ run'.pc = "door4"
      BY <1>3, <1>11, <2>1 DEF Gate35, At, PCs
    <2> QED BY <2>2 DEF Work
  <1>12. CASE Door4
    <2>1. run.pc = "door4" /\ run'.pc \in {"door5", "section"} /\ run'.next = run.next
      BY <1>3, <1>12 DEF Door4, At, PCs
    <2>2. Work(run) = 8 /\ (Work(run') = 3 \/ Work(run') = 8 - run.next)
      BY <2>1 DEF Work
    <2>3. run.next \in 1..5
      BY <1>1, SectionsAreFour DEF Run
    <2> QED BY <2>2, <2>3
  <1>13. CASE Section
    <2>1. run.pc = "section" /\ run.cleaned \in Pages /\ run.calls < MaxCalls /\ run.next \in 1..4
      BY <1>13, SectionCalls, SectionsAreFour
    <2>2. Work(run) = 8 - run.next
      BY <2>1 DEF Work
    <2>3. PICK tokens \in Nat, fields \in SUBSET Fields :
            Raises \/ Becomes(AfterSection(Called("door4", "llm", tokens, tokens, fields)))
      BY <1>13, SectionCalls
    <2>4. CASE Becomes(AfterSection(Called("door4", "llm", tokens, tokens, fields)))
      <3>1. run'.next = run.next + 1 /\ run'.pc = IF run.next = 4 THEN "door5" ELSE "section"
        BY <1>1, <2>1, <2>4, SectionLeaves, SectionsAreFour DEF Becomes
      <3>2. Work(run') = IF run.next = 4 THEN 3 ELSE 8 - (run.next + 1)
        BY <3>1 DEF Work
      <3> QED BY <2>1, <2>2, <3>2
    <2> QED BY <1>4, <2>1, <2>3, <2>4
  <1>14. CASE Door5
    <2>1. run.pc = "door5" /\ run.cleaned \in Pages /\ run.calls < MaxCalls
      BY <1>14, Door5Calls
    <2>2. run'.pc = "gate"
      <3>1. CASE Goes("gate")
        BY <1>3, <3>1 DEF PCs
      <3>2. CASE ~Goes("gate")
        <4>1. PICK origin \in {"gap", "bad"}, tokens \in Nat, cost \in Nat, fields \in SUBSET Fields :
                Becomes(AfterDoor5(Called("door5", origin, tokens, cost, fields)))
          BY <1>14, <3>2, Door5Calls
        <4>2. Called("door5", origin, tokens, cost, fields) \in Run
          BY <1>1, <2>1, CalledFacts DEF Leaves
        <4> QED BY <4>1, <4>2 DEF Becomes, AfterDoor5, Run
      <3> QED BY <3>1, <3>2
    <2> QED BY <2>1, <2>2 DEF Work
  <1>15. CASE Gate
    <2>1. run.pc = "gate"
      BY <1>15 DEF Gate, At
    <2>2. ASSUME Goes("persist") PROVE Work(run') < Work(run)
      BY <1>3, <2>1, <2>2 DEF PCs, Work
    <2> QED BY <1>4, <1>15, <2>1, <2>2 DEF Gate
  <1>16. CASE Persist
    <2>1. run.pc = "persist" /\ run' = Blank
      BY <1>16 DEF Persist, At
    <2>2. Work(run) = 1 /\ Work(run') = 0
      BY <2>1, BlankIsDone DEF Work
    <2> QED BY <2>2
  <1> QED BY <1>5, <1>6, <1>7, <1>8, <1>10, <1>11, <1>12, <1>13, <1>14, <1>15, <1>16 DEF Step

WorkShrinks ==
    /\ Work(run) \in 0..(MaxRedirects + 13)
    /\ Step => Work(run') < Work(run)

(***************************************************************************)
(* An extraction takes at most MaxRedirects + 13 steps: redirects and the  *)
(* calls of Doors 4 and 5 are counted, a page is rendered once (extract_job*)
(* and fetch_http).  Of ExtractionEnds this is the part that no fairness   *)
(* is needed for.                                                          *)
(***************************************************************************)
THEOREM ExtractionsRunOut == Spec => [][WorkShrinks]_vars
  <1>1. ExInv /\ [Next]_vars => [WorkShrinks]_vars
    BY WorkType, StepIsLess DEF ExInv, RunOK, WorkShrinks
  <1> QED BY <1>1, Invariance, PTL DEF Spec
-----------------------------------------------------------------------------
(***************************************************************************)
(* The snapshots of the extractions, failed ones included, are those of    *)
(* SnapshotStore: ON CONFLICT DO NOTHING keeps the first extraction's      *)
(* result of a content, and no later one changes or removes it.            *)
(***************************************************************************)
Store == INSTANCE SnapshotStore

THEOREM ExtractionsImplementStore == Spec => Store!Spec
  <1>1. Init => Store!Init
    BY DEF Init, Store!Init
  <1>2. ASSUME ExInv, [Next]_vars
        PROVE  [Store!Next]_snapshot
    <2>1. CASE Persist
      <3>1. PICK k \in Hashes : snapshot' = [snapshot EXCEPT ![k] = IF @ = NoSnapshot THEN Payload ELSE @]
        <4>1. run \in Run /\ Stage(run) /\ run.pc = "persist"
          BY <1>2, <2>1 DEF ExInv, RunOK, Persist, At
        <4>2. <<run.url, run.hashed>> \in Hashes
          BY <4>1 DEF Stage, Early, Run, Hashes
        <4> QED BY <2>1, <4>2 DEF Persist
      <3>2. snapshot \in [Hashes -> Snapshot \cup {NoSnapshot}]
        BY <1>2 DEF ExInv
      <3>3. CASE snapshot[k] = NoSnapshot
        <4>1. snapshot' = [snapshot EXCEPT ![k] = snapshot'[k]]
          BY <3>1, <3>2, <3>3
        <4> QED BY <3>3, <4>1 DEF Store!Next, Store!Store
      <3>4. CASE snapshot[k] # NoSnapshot
        BY <3>1, <3>2, <3>4
      <3> QED BY <3>3, <3>4
    <2>2. CASE ~Persist
      BY <1>2, <2>2 DEF Next, Step, vars, Begin, Lookup, Door1, Redirect, TooManyRedirects, Answer, Gate35,
         Door4, OutOfBudget, Section, Door5, Gate, Abort, Raises, Goes, Becomes
    <2> QED BY <2>1, <2>2
  <1> QED BY <1>1, <1>2, Invariance, PTL DEF Spec, Store!Spec
-----------------------------------------------------------------------------
(***************************************************************************)
(* What the merges do, and which posting of a board is taken.              *)
(***************************************************************************)
LEMMA MergesKeep ==
    ASSUME NEW acc \in [Fields -> Values], NEW found \in [Fields -> Values]
    PROVE  /\ Filled(acc) \subseteq Filled(FillGaps(acc, found))
           /\ Filled(acc) \subseteq Filled(MergeOver(acc, found))
  BY DEF Filled, FillGaps, MergeOver, HasValue

FilledStays == run'.pc # "idle" => Filled(run.acc) \subseteq Filled(run'.acc)

(***************************************************************************)
(* D30 and D40: no door empties a field that an earlier one has filled,    *)
(* whatever it found or was answered (fill_gaps, merge_over).              *)
(***************************************************************************)
THEOREM NothingIsEmptied == Spec => [][FilledStays]_vars
  <1>1. ASSUME ExInv, [Next]_vars
        PROVE  [FilledStays]_vars
    <2>1. run \in Run /\ Stage(run)
      BY <1>1 DEF ExInv, RunOK
    <2>2. ASSUME NEW pc, Goes(pc) PROVE FilledStays
      BY <2>1, <2>2 DEF Goes, Becomes, Run, FilledStays
    <2>3. CASE Raises \/ Becomes(Blank) \/ run' = Blank
      BY <2>3 DEF Raises, Becomes, Blank, FilledStays
    <2>4. CASE Door1
      <3>1. run.acc = Nothing
        BY <2>1, <2>4 DEF Door1, At, Stage, Early
      <3>2. Filled(run.acc) = {}
        BY <3>1 DEF Filled, HasValue, Nothing
      <3> QED BY <3>2 DEF FilledStays
    <2>5. CASE Redirect
      <3>1. run'.acc = run.acc
        BY <2>1, <2>5 DEF Redirect, Becomes, Run
      <3> QED BY <3>1 DEF FilledStays
    <2>6. ASSUME NEW p \in Pages, NEW origin \in {"ld", "shown"}, NEW u, NEW pc,
                 Becomes(Read(p, origin, u, pc))
          PROVE  FilledStays
      <3>1. JsonLd(p.node, origin) \in [Fields -> Values]
        BY PageFacts, JsonLdOffers DEF LdOffer
      <3>2. run'.acc = FillGaps(run.acc, JsonLd(p.node, origin))
        BY <2>1, <2>6 DEF Becomes, Read, Run
      <3>3. run.acc \in [Fields -> Values]
        BY <2>1 DEF Run
      <3> QED BY <3>1, <3>2, <3>3, MergesKeep DEF FilledStays
    <2>7. ASSUME NEW door \in {"door4", "door5"}, NEW origin \in {"llm", "gap", "bad"}, NEW tokens, NEW cost,
                 NEW fields \in SUBSET Fields, run'.acc = Called(door, origin, tokens, cost, fields).acc
          PROVE  FilledStays
      <3> DEFINE found == [f \in Fields |-> IF f \in fields THEN origin ELSE "none"]
      <3>1. found \in [Fields -> Values]
        BY DEF Values
      <3>2. run'.acc = MergeOver(run.acc, found)
        BY <2>1, <2>7 DEF Called, Run
      <3>3. run.acc \in [Fields -> Values]
        BY <2>1 DEF Run
      <3> HIDE DEF found
      <3> QED BY <3>1, <3>2, <3>3, MergesKeep DEF FilledStays
    <2>8. CASE Section
      <3>1. PICK tokens \in Nat, fields \in SUBSET Fields :
              Raises \/ Becomes(AfterSection(Called("door4", "llm", tokens, tokens, fields)))
        BY <1>1, <2>8, SectionCalls
      <3>2. ASSUME Becomes(AfterSection(Called("door4", "llm", tokens, tokens, fields)))
            PROVE  run'.acc = Called("door4", "llm", tokens, tokens, fields).acc
        BY <1>1, <2>1, <2>8, <3>2, SectionCalls, SectionLeaves DEF Becomes
      <3> QED BY <2>3, <2>7, <3>1, <3>2
    <2>9. CASE Door5
      <3>1. CASE Goes("gate")
        BY <2>2, <3>1
      <3>2. CASE ~Goes("gate")
        <4>1. PICK origin \in {"gap", "bad"}, tokens \in Nat, cost \in Nat, fields \in SUBSET Fields :
                run' = AfterDoor5(Called("door5", origin, tokens, cost, fields))
          BY <1>1, <2>9, <3>2, Door5Calls DEF Becomes
        <4>2. Called("door5", origin, tokens, cost, fields) \in Run
          BY <1>1, <2>1, <2>9, Door5Calls, CalledFacts DEF Leaves
        <4>3. run'.acc = Called("door5", origin, tokens, cost, fields).acc
          BY <4>1, <4>2 DEF AfterDoor5, Run
        <4> QED BY <2>7, <4>3
      <3> QED BY <3>1, <3>2
    <2>10. CASE Begin \/ Lookup \/ Door4 \/ Gate
      BY <2>2, <2>3, <2>10 DEF Begin, Lookup, Door4, Gate
    <2>11. CASE Answer \/ Gate35
      <3>1. ASSUME NEW p \in Pages, NEW u, Becomes(Shown(p, u)) PROVE FilledStays
        <4>1. CASE p.parses
          BY <2>6, <3>1, <4>1 DEF Shown
        <4>2. CASE ~p.parses
          <5>1. run'.acc = run.acc
            BY <2>1, <3>1, <4>2 DEF Shown, Becomes, Run
          <5> QED BY <5>1 DEF FilledStays
        <4> QED BY <4>1, <4>2
      <3> QED BY <2>2, <2>3, <2>6, <2>11, <3>1 DEF Answer, Gate35
    <2>12. CASE TooManyRedirects \/ OutOfBudget \/ Abort \/ Persist
      BY <2>3, <2>12 DEF TooManyRedirects, OutOfBudget, Abort, Persist
    <2> QED BY <1>1, <2>4, <2>5, <2>8, <2>9, <2>10, <2>11, <2>12 DEF Next, Step
  <1> QED BY <1>1, Invariance, PTL DEF Spec

\* Pick takes one of the matches.
LEMMA PickMatches ==
    ASSUME NEW board \in Seq(Posting), NEW matches \in SUBSET DOMAIN board, matches # {}
    PROVE  \E i \in matches : Pick(board, matches) = board[i]
  <1>1. matches \subseteq Nat
    OBVIOUS
  <1>2. PICK i \in matches : \A j \in matches : i <= j
    BY <1>1, LeastIndex
  <1>3. (CHOOSE k \in matches : \A j \in matches : k <= j) \in matches
    BY <1>2
  <1> QED BY <1>3 DEF Pick

(***************************************************************************)
(* Door 1 takes a posting other than the one asked for only when the       *)
(* answer has no posting with that id: from Greenhouse then only one whose *)
(* url contains the id (fetch_greenhouse, fetch_lever in jd_doors.py).     *)
(***************************************************************************)
THEOREM StrayOnlyWhenMissing ==
    ASSUME NEW asked \in PostingIds, NEW board \in Seq(Posting), NEW single \in Posting \cup {NoPosting},
           single # NoPosting => single.id = asked
    PROVE  LET g == GreenhousePosting(asked, single, board)
               l == LeverPosting(asked, single, board)
           IN  /\ g # NoPosting => \/ g.id = asked
                                   \/ Exactly(asked, board) = {} /\ asked \in g.cites
               /\ l # NoPosting => l.id = asked \/ Exactly(asked, board) = {}
  <1>1. asked # NoId
    BY WebAssumption
  <1>2. /\ Exactly(asked, board) \in SUBSET DOMAIN board
        /\ Citing(asked, board) \in SUBSET DOMAIN board
        /\ DOMAIN board \in SUBSET DOMAIN board
    BY DEF Exactly, Citing
  <1>3. CASE single # NoPosting
    BY <1>1, <1>3 DEF GreenhousePosting, LeverPosting
  <1>4. CASE single = NoPosting /\ Exactly(asked, board) # {}
    <2>1. PICK i \in Exactly(asked, board) : Pick(board, Exactly(asked, board)) = board[i]
      BY <1>2, <1>4, PickMatches
    <2>2. board[i].id = asked
      BY DEF Exactly
    <2> QED BY <1>1, <1>4, <2>1, <2>2 DEF GreenhousePosting, LeverPosting
  <1>5. CASE single = NoPosting /\ Exactly(asked, board) = {}
    <2>1. GreenhousePosting(asked, single, board) = Pick(board, Citing(asked, board))
      BY <1>1, <1>5 DEF GreenhousePosting
    <2>2. CASE Citing(asked, board) = {}
      BY <1>5, <2>1, <2>2 DEF Pick
    <2>3. CASE Citing(asked, board) # {}
      <3>1. PICK i \in Citing(asked, board) : Pick(board, Citing(asked, board)) = board[i]
        BY <1>2, <2>3, PickMatches
      <3>2. asked \in board[i].cites
        BY DEF Citing
      <3> QED BY <1>5, <2>1, <3>1, <3>2
    <2> QED BY <2>2, <2>3
  <1> QED BY <1>3, <1>4, <1>5
=============================================================================
