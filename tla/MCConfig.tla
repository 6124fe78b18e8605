------------------------------ MODULE MCConfig ------------------------------
(* What is stored of sites, streams and resources and sent to the CDN:     *)
(* defaults of new ones (Defaults), the fields of a resource that is       *)
(* changed piece by piece (Fields), the targets of sites (Cnames).  A      *)
(* behaviour is one of one of the three, and the others stay as they were  *)
(* at the start.                                                           *)
EXTENDS Fields, Integers, FiniteSets, TLC

CONSTANTS Setting, Default, Changer, MaxGroup, Name, Upgraded,
          Web, Lister, Odd,
          c1, c2, s1, s2, x1, x2, l1, l2

VARIABLES part,
          dkind, legacy, group, last, config, drow, dcdn, work, touched, cut, dreq,
          cname, configured, forms, listing

defaults == <<dkind, legacy, group, last, config, drow, dcdn, work, touched, cut, dreq>>
cnames == <<cname, configured, forms, listing>>

D == INSTANCE Defaults WITH Req <- Changer, Config <- Default, None <- Nil,
                            kind <- dkind, row <- drow, cdn <- dcdn, req <- dreq
C == INSTANCE Cnames WITH Site <- Web, Job <- Lister, None <- Nil, job <- listing

(* A row, a default and what the CDN has are told from there being none.   *)
ASSUME ConfigAssumption ==
  /\ "cdn" \notin Web
  /\ MaxGroup \in Nat /\ (Upgraded \subseteq {0} \/ (MaxGroup > 0 /\ "old" \in Name)) /\ Nil \notin Name
  /\ Nil \notin [group : 0..MaxGroup, val : D!Values]
  /\ Nil \notin D!Values
  /\ Nil \notin [setting : Setting, scope : 0..MaxGroup, on : BOOLEAN]

MCInit ==
  /\ part \in {"defaults", "fields", "cnames"}
  /\ D!Init /\ (part # "defaults" => dkind = "site" /\ legacy = 0)
  /\ FieldsInit /\ (part # "fields" => kind = "acls")
  /\ C!Init /\ (part # "cnames" => configured = C!Empty /\ forms = CHOOSE f \in C!Forms : TRUE)
  /\ (part # "cnames" => \A s \in Web : cname[s] = C!Empty)

MCNext ==
  \/ part = "defaults" /\ D!Next /\ UNCHANGED <<part, fieldsVars, cnames>>
  \/ part = "fields" /\ FieldsNext /\ UNCHANGED <<part, defaults, cnames>>
  \/ part = "cnames" /\ C!Next /\ UNCHANGED <<part, defaults, fieldsVars>>

MCSpec == MCInit /\ [][MCNext]_<<part, defaults, fieldsVars, cnames>>

(* What is made with defaults has those that were arranged, and its row    *)
(* says what the CDN serves (user-defaults.js).                            *)
DefaultsSound == D!TypeOK /\ D!AsArranged /\ D!RowFollows

(* What is sent piece by piece fits at the CDN, and what is stored of it   *)
(* is complete, stays and is no secret (tenant-proxy.js).                  *)
FieldsSound ==
  [](FieldsTypeOK /\ C!TypeOK /\ FitsAtCdn /\ RemarkKept /\ SecretsGone) /\ C!TargetKept

(* Defaults, settings, sites and requests are alike, in each part by       *)
(* itself; since only one of them goes on, they may be exchanged together. *)
Other == c1 :> c2 @@ c2 :> c1 @@ s1 :> s2 @@ s2 :> s1
           @@ x1 :> x2 @@ x2 :> x1 @@ l1 :> l2 @@ l2 :> l1
Turned(S, turned) == [z \in S |-> IF turned THEN Other[z] ELSE z]
Symmetry == {Turned(Default \cup Web, i) @@ Turned(Setting \cup Lister, j) : i \in BOOLEAN, j \in BOOLEAN}
=============================================================================
