------------------------------- MODULE Cnames -------------------------------
(***************************************************************************)
(* The CNAME target of a site (tenant-proxy.js): a host name of the site   *)
(* under a suffix of the CDN.  Depending on its version the CDN answers    *)
(* the whole name, the two parts, the suffix alone or the number of the    *)
(* suffix, at the top of the record or inside it.  Lists and detail views  *)
(* complete what they see and write it on the row if it differs from the   *)
(* row as read.  A name is a sequence of labels; a complete one has a dot. *)
(***************************************************************************)
EXTENDS Integers, SequencesExt

CONSTANTS Site, Job,
          Odd,     \* the CDN may answer the suffix where the name belongs, or mix numbers and whole names
          None

VARIABLES cname,      \* the name on each row
          configured, \* the suffix an administrator gave for the account, if any
          forms,      \* how this CDN answers lists and details, and whether lists name the suffixes
          job

vars == <<cname, configured, forms, job>>

Empty == << >>
Suffix == <<"cdn", "net">>
Id == <<"7">>
Own(s) == <<s>> \o Suffix
Idle == [pc |-> "idle", site |-> None, known |-> << >>, rest |-> {}, absent |-> {}, cache |-> Empty]

(* The forms of a record: those of the tests.                              *)
F(full, name, host, domain) == [full |-> full, cname |-> name, host |-> host, domain |-> domain]
Flat ==
  {F("no", "no", "no", "no"), F("own", "no", "no", "no"), F("no", "own", "no", "no"), F("no", "own", "no", "suffix"),
   F("no", "no", "no", "suffix"), F("no", "no", "no", "id"), F("no", "no", "host", "suffix"), F("no", "no", "own", "suffix"),
   F("no", "host", "no", "suffix"), F("no", "suffix", "host", "suffix"), F("no", "no", "host", "id")}
  \cup (IF Odd THEN {F("no", "suffix", "no", "suffix")} ELSE {})
Form == [outer : Flat, inner : {None}]
        \cup [outer : {F("no", "no", "no", d) : d \in {"no", "suffix", "id"}}, inner : {f \in Flat : f.host = "host"}]
Text(x, s) == CASE x = "no" -> Empty [] x = "own" -> Own(s) [] x = "host" -> <<s>> [] x = "suffix" -> Suffix [] x = "id" -> Id
View(f, s) == [x \in DOMAIN f |-> Text(f[x], s)]
Record(form, s) == [outer |-> View(form.outer, s), inner |-> IF form.inner = None THEN None ELSE View(form.inner, s)]

Numbers(form) == form.outer.domain = "id" \/ (IF form.inner = None THEN FALSE ELSE form.inner.domain = "id")
Whole(form) == \E x \in DOMAIN form.outer : form.outer[x] = "own"
Forms == {f \in [list : [outer : Flat, inner : {None}], detail : Form, table : BOOLEAN] :
            Odd \/ ((Numbers(f.detail) => ~Whole(f.list)) /\ (Numbers(f.list) => ~Whole(f.detail)))}

TypeOK ==
  /\ \A s \in Site : cname[s] \in Seq(Site \cup {"cdn", "net"})
  /\ configured \in {Empty, Suffix} /\ forms \in Forms
  /\ \A j \in Job : /\ job[j].pc \in {"idle", "detail", "sync"} /\ job[j].site \in Site \cup {None}
                    /\ DOMAIN job[j].known \subseteq Site /\ job[j].rest \subseteq Site /\ job[j].absent \subseteq Site

(* The rows may hold what an older version left there.                     *)
Init ==
  /\ cname \in {[s \in Site |-> Empty], [s \in Site |-> Suffix], [s \in Site |-> Own(s)]}
  /\ configured \in {Empty, Suffix} /\ forms \in Forms
  /\ job = [j \in Job |-> Idle]

-----------------------------------------------------------------------------
(* isCompleteCname; the number of a suffix has no dot.                     *)
Complete(n) == Len(n) >= 2
Or(n, m) == IF n # Empty THEN n ELSE m

(* Plausible faults of the code.                                           *)
AnySuffixBug(v, resolved) == TRUE

(* The suffix that goes with a record, and its host completed with it; a   *)
(* name the row knows in full is preferred to a part of it.                *)
SuffixOf(v, resolved) == IF Complete(v.domain) THEN v.domain ELSE resolved
PreferFull(n, previous) == IF IsStrictSuffix(n, previous) THEN previous ELSE n
Combine(host, suffix, previous) ==
  IF Complete(host) THEN PreferFull(host, previous)
  ELSE IF suffix = Empty THEN previous ELSE host \o suffix

(* extractCname: the whole name, else the name with the suffix, else the   *)
(* host with the suffix, else what is inside, else what is known.          *)
AtTop(v, previous, suffix) ==
  IF Complete(v.full) THEN PreferFull(v.full, previous)
  ELSE IF Complete(v.cname) /\ (v.host = Empty \/ IsPrefix(v.host, v.cname) \/ suffix = Empty)
  THEN PreferFull(v.cname, previous)
  ELSE IF v.cname # Empty /\ ~(v.host # Empty /\ v.cname = suffix) /\ Combine(v.cname, suffix, previous) # Empty
  THEN Combine(v.cname, suffix, previous)
  ELSE IF v.host # Empty THEN Combine(v.host, suffix, previous)
  ELSE Empty
Extract(record, previous, resolved) ==
  LET suffix == SuffixOf(record.outer, resolved)
      within == SuffixOf(record.inner, suffix)
      inside == IF record.inner = None THEN Empty
                ELSE Or(AtTop(record.inner, previous, within), Or(previous, within)) IN
  Or(AtTop(record.outer, previous, suffix), Or(inside, Or(previous, suffix)))

(* hasCnameTarget: a suffix alone is not a target.                         *)
NamesTarget(v, suffix) ==
  v.host # Empty \/ Complete(v.full) \/ (v.cname # Empty /\ (Complete(v.cname) \/ (suffix # Empty /\ v.cname # suffix)))
HasTarget(record, resolved) ==
  LET suffix == SuffixOf(record.outer, resolved) IN
  NamesTarget(record.outer, suffix)
  \/ (IF record.inner = None THEN FALSE ELSE NamesTarget(record.inner, SuffixOf(record.inner, suffix)))

(* extractCompleteCname: what the row gets from a record.                  *)
Complement(record, known, resolved) ==
  LET previous == IF Complete(known) THEN known ELSE Empty
      found == Extract(record, previous, resolved) IN
  IF ~HasTarget(record, resolved) THEN previous ELSE IF Complete(found) THEN found ELSE Empty

(* cnameDomainId, findCnameDomain, resolveCnameDomain: the number of the   *)
(* suffix is looked up in the settings, else in the answers: in their table*)
(* or wherever they name something complete.                               *)
HasId(record) == record.outer.domain = Id \/ (IF record.inner = None THEN FALSE ELSE record.inner.domain = Id)
Mentioned(record) ==
  {n \in {record.outer[x] : x \in DOMAIN record.outer}
         \cup (IF record.inner = None THEN {} ELSE {record.inner[x] : x \in DOMAIN record.inner}) : Complete(n)}
Listed(absent) == (UNION {Mentioned(Record(forms.list, s)) : s \in Site \ absent}) \cup (IF forms.table THEN {Suffix} ELSE {})
Lookup(first, then) ==
  IF configured # Empty THEN {configured} ELSE IF first # {} THEN first ELSE IF then # {} THEN then ELSE {Empty}

-----------------------------------------------------------------------------
Set(j, new) == job' = [job EXCEPT ![j] = new]
Save(s, known, found) == cname' = IF found = known THEN cname ELSE [cname EXCEPT ![s] = found]

(* A detail view reads the row, asks the CDN and completes the name.       *)
BeginDetail(j, s) ==
  /\ job[j].pc = "idle" /\ Set(j, [pc |-> "detail", site |-> s, known |-> [z \in {s} |-> cname[z]],
                                 rest |-> {}, absent |-> {}, cache |-> Empty])
  /\ UNCHANGED <<cname, configured, forms>>

Detail(j) ==
  LET s == job[j].site
      record == Record(forms.detail, s) IN
  /\ job[j].pc = "detail" /\ Set(j, Idle)
  /\ \E resolved \in IF HasId(record) THEN Lookup(Mentioned(record), {}) ELSE {configured} :
       Save(s, job[j].known[s], Complement(record, job[j].known[s], resolved))
  /\ UNCHANGED <<configured, forms>>

(* A list reads the rows and asks the CDN for all its sites, of which some *)
(* may not be on the page; if that fails, it leaves the rows alone         *)
(* (syncSiteCnames).                                                       *)
BeginList(j, absent) ==
  /\ job[j].pc = "idle" /\ Set(j, [pc |-> "sync", site |-> None, known |-> cname,
                                 rest |-> Site, absent |-> absent, cache |-> Empty])
  /\ UNCHANGED <<cname, configured, forms>>

(* What a list record says of a site, and, if it says nothing, what its    *)
(* detail says, if it is answered; a suffix once looked up is kept for the *)
(* sites that follow.                                                      *)
Fresh(record, known, resolved) == Complement(record, Empty, resolved)
Cached(cache, found) == IF cache # Empty THEN {cache} ELSE found

Onward(j, s, cache) ==
  Set(j, IF job[j].rest = {s} THEN Idle
         ELSE [pc |-> "sync", site |-> None, known |-> [r \in job[j].rest \ {s} |-> job[j].known[r]],
               rest |-> job[j].rest \ {s}, absent |-> job[j].absent, cache |-> cache])

Sync(j, s, answered) ==
  LET w == job[j]
      seen == s \notin w.absent
      record == Record(forms.list, s)
      detail == Record(forms.detail, s)
      known == w.known[s]
      first == IF seen THEN Mentioned(record) ELSE {} IN
  /\ w.pc = "sync" /\ s \in w.rest
  /\ \E resolved \in IF seen /\ HasId(record) THEN Cached(w.cache, Lookup(Listed(w.absent), {})) ELSE {Empty} :
       LET fresh == IF seen THEN Fresh(record, known, resolved) ELSE Empty
           byId == HasId(detail) \/ (seen /\ HasId(record)) IN
       IF fresh # Empty \/ ~answered
       THEN /\ Save(s, known, Or(fresh, known))
            /\ Onward(j, s, IF resolved # Empty THEN resolved ELSE w.cache)
       ELSE \E found \in IF ~byId THEN {resolved}
                         ELSE Cached(Or(resolved, w.cache), Lookup(Listed(w.absent), Mentioned(detail))) :
            /\ Save(s, known, Or(Complement(detail, known, found), known))
            /\ Onward(j, s, IF byId /\ found # Empty THEN found ELSE w.cache)
  /\ UNCHANGED <<configured, forms>>

Next ==
  \E j \in Job :
    \/ \E s \in Site : BeginDetail(j, s) \/ \E answered \in BOOLEAN : Sync(j, s, answered)
    \/ Detail(j)
    \/ \E absent \in SUBSET Site : BeginList(j, absent)

Spec == Init /\ [][Next]_vars

-----------------------------------------------------------------------------
(* The target of a site, once it is on its row, stays there, whichever     *)
(* lists and detail views write in whatever order and however little they  *)
(* were answered; it is never cut down to the suffix and never composed    *)
(* with the name of another site (syncSiteCnames; comment in               *)
(* extractCompleteCname).                                                  *)
TargetKept ==
  [][\A s \in Site : cname'[s] \in {Own(s)} \cup (IF cname[s] = Own(s) THEN {} ELSE {Empty, Suffix})]_cname
=============================================================================
