------------------------------- MODULE Fields -------------------------------
(***************************************************************************)
(* Partial updates of certificates, DNS credentials, access lists and of   *)
(* the HTTPS part of a site (tenant-proxy.js).  The CDN merges what it is  *)
(* sent into what it has.  The row of a resource keeps a copy of it        *)
(* without the secrets, and it is this copy that a partial update is       *)
(* checked against, so that the parts which belong together stay together: *)
(* the key and the body of a certificate, a provider and its credentials,  *)
(* a redirection and its address.  These kinds take no lock.               *)
(***************************************************************************)
CONSTANTS Kind,   \* the kinds of resource that there may be
          Req,    \* requests under way
          Nil     \* no body, no value

VARIABLES kind,   \* what the resource is
          served, \* its fields at the CDN, Nil before it is created
          snap,   \* its fields in the row, Nil before there is a row
          shown,  \* the fields last answered to the customer
          remark, \* history: the remark the customer gave it last
          apart,  \* history: no two requests overlapped, no answer was lost
          req

fieldsVars == <<kind, served, snap, shown, remark, apart, req>>

Values(k, f) ==
  CASE f = "des"    -> {"", "r"}
    [] f = "type"   -> IF k = "certs" THEN {"custom", "lets"} ELSE {"A", "B"}
    [] f = "auth"   -> {"A", "B"}          \* the provider these credentials are for
    [] f = "key"    -> {"1", "2"}          \* one of two pairs
    [] f = "cert"   -> {"1", "2"}
    [] f = "domain" -> {"plain", "wild"}
    [] f = "dnsapi" -> {"given"}
    [] f = "action" -> {"allow", "reject"}
    [] f = "code"   -> {"403", "302"}
    [] f = "url"    -> {"", "u"}
    [] f = "https"  -> {"on", "off"}
    [] f = "pem"    -> {"chosen"}

FieldsOf(k) ==
  CASE k = "certs"   -> {"des", "type", "key", "cert", "domain", "dnsapi"}
    [] k = "dnsapis" -> {"des", "type", "auth"}
    [] k = "acls"    -> {"des", "action", "code", "url"}
    [] k = "sites"   -> {"https", "pem"}

AllValues(k, S) == UNION {Values(k, f) : f \in S}
Bodies == [k \in Kind |-> UNION {{g \in [S -> AllValues(k, S)] : \A f \in S : g[f] \in Values(k, f)} : S \in SUBSET FieldsOf(k)}]
IsBody(k, g) == DOMAIN g \subseteq FieldsOf(k) /\ \A f \in DOMAIN g : g[f] \in Values(k, f)
Given(g, f) == f \in DOMAIN g
Known(g, f) == IF f \in DOMAIN g THEN g[f] ELSE Nil
Only(g, S) == [f \in DOMAIN g \cap S |-> g[f]]
Without(g, S) == [f \in DOMAIN g \ S |-> g[f]]
(* The values of f, and those of g where f has none.                       *)
Over(f, g) == [x \in DOMAIN f \cup DOMAIN g |-> IF x \in DOMAIN f THEN f[x] ELSE g[x]]
Inputs == [k \in Kind |-> {g \in Bodies[k] : {"key", "cert"} \subseteq DOMAIN g => g.key = g.cert}]  \* a pair that fits
Secrets == {"key", "auth"}

ASSUME FieldsAssumption ==
  /\ Kind \subseteq {"certs", "dnsapis", "acls", "sites"}
  /\ \A k \in Kind : Nil \notin Bodies[k] /\ Nil \notin AllValues(k, FieldsOf(k))

NoWork == [pc |-> "idle", known |-> << >>, body |-> << >>]

FieldsTypeOK ==
  /\ kind \in Kind /\ remark \in {"", "r"} /\ apart \in BOOLEAN
  /\ (IF served = Nil THEN TRUE ELSE IsBody(kind, served)) /\ (IF snap = Nil THEN TRUE ELSE IsBody(kind, snap))
  /\ IsBody(kind, shown)
  /\ \A r \in Req : /\ req[r].pc \in {"idle", "create", "created", "put", "saved", "list"}
                    /\ IsBody(kind, req[r].known) /\ IsBody(kind, req[r].body)

FieldsInit ==
  /\ kind \in Kind /\ served = Nil /\ snap = Nil /\ shown = << >> /\ remark = "" /\ apart = TRUE
  /\ req = [r \in Req |-> NoWork]

-----------------------------------------------------------------------------
(* Plausible faults of the code.                                           *)
KeptBug(g) == Without(g, {"key"})
ForgottenBug(body, known) == IF kind = "sites" THEN body ELSE Over(body, [des |-> ""])
HalfPairBug(input, known, partial) ==
  LET type == IF Given(input, "type") THEN input.type ELSE Known(known, "type")
      switching == Given(input, "type") /\ Known(known, "type") # "custom" IN
  IF ~partial /\ ~Given(input, "type") THEN {}
  ELSE IF type = "custom"
  THEN IF (~partial \/ switching) /\ ~(Given(input, "key") /\ Given(input, "cert")) THEN {}
       ELSE {Only(input, {"des", "type", "key", "cert"})}
  ELSE {Only(input, {"des", "type", "domain", "dnsapi"})}

(* redactCertificate, redactDnsApi.                                        *)
Redacted(g) == IF kind = "sites" THEN << >> ELSE Without(g, Secrets)   \* a site keeps no copy

(* sanitizeCertificateInput: what is sent of an input, if it is accepted.  *)
(* A pair is replaced as a whole; a certificate to be issued for a wildcard*)
(* needs DNS credentials.                                                  *)
CleanCert(input, known, partial) ==
  LET type == IF Given(input, "type") THEN input.type ELSE Known(known, "type")
      switching == Given(input, "type") /\ Known(known, "type") # "custom"
      domain == IF Given(input, "domain") THEN input.domain ELSE Known(known, "domain")
      dnsapi == IF Given(input, "dnsapi") THEN input.dnsapi ELSE Known(known, "dnsapi")
      named == ~partial \/ Given(input, "domain") \/ Given(input, "type") IN
  IF ~partial /\ ~Given(input, "type") THEN {}
  ELSE IF type = "custom"
  THEN IF \/ Given(input, "key") # Given(input, "cert")
          \/ (~partial \/ switching) /\ ~Given(input, "key") THEN {}
       ELSE {Only(input, {"des", "type", "key", "cert"})}
  ELSE IF named
  THEN IF domain = Nil \/ (domain = "wild" /\ dnsapi = Nil) THEN {}
       ELSE {Over([domain |-> domain], Only(input, {"des", "type", "dnsapi"}))}
  ELSE {Only(input, {"des", "dnsapi"})}

(* sanitizeDnsApiInput: another provider needs its credentials, and the    *)
(* fields given are those of the provider.                                 *)
CleanDns(input, known, partial) ==
  LET type == IF Given(input, "type") THEN input.type ELSE Known(known, "type")
      changed == Given(input, "type") /\ type # Known(known, "type") IN
  IF \/ ~partial /\ ~Given(input, "type")
     \/ Given(input, "auth") /\ Known(input, "auth") # type
     \/ ~Given(input, "auth") /\ (~partial \/ changed) THEN {}
  ELSE {input}

(* sanitizeAclInput: the address follows the action and the code.          *)
CleanAcl(input, known, partial) ==
  LET action == IF Given(input, "action") THEN input.action ELSE IF Given(known, "action") THEN known.action ELSE "allow"
      code == IF Given(input, "code") THEN input.code ELSE IF Given(known, "code") THEN known.code ELSE "403"
      url == IF Given(input, "url") THEN input.url ELSE Known(known, "url")
      redirects == action = "reject" /\ code = "302"
      changed == ~partial \/ Given(input, "action") \/ Given(input, "code") \/ Given(input, "url")
      base == IF partial THEN Only(input, {"des", "action", "code"})
              ELSE Over(Only(input, {"des"}), [action |-> action, code |-> code, des |-> ""]) IN
  IF ~changed THEN {base}
  ELSE IF redirects /\ url \in {Nil, ""} THEN {}
  ELSE {Over([url |-> IF redirects THEN url ELSE ""], base)}

(* normalizeSiteWriteInput: HTTPS is not switched on without a certificate;*)
(* switched off without one, it is left out of the request.                *)
CleanSite(input, known, partial) ==
  LET https == IF Given(input, "https") THEN input.https ELSE IF Given(input, "pem") THEN "on" ELSE "off" IN
  IF https = "on" /\ ~Given(input, "pem") THEN {}
  ELSE IF ~Given(input, "pem") THEN {<< >>}
  ELSE {Over([https |-> https], input)}

Clean(input, known, partial) ==
  CASE kind = "certs"   -> CleanCert(input, known, partial)
    [] kind = "dnsapis" -> CleanDns(input, known, partial)
    [] kind = "acls"    -> CleanAcl(input, known, partial)
    [] kind = "sites"   -> CleanSite(input, known, partial)

(* ownershipPayload: the remark is sent with every request, the known one  *)
(* if none is given.                                                       *)
Remarked(body, known) ==
  IF kind = "sites" THEN body
  ELSE Over([des |-> IF Given(body, "des") THEN body.des ELSE IF Given(known, "des") THEN known.des ELSE ""], body)

-----------------------------------------------------------------------------
Set(r, new) == req' = [req EXCEPT ![r] = new]
Begun(r) == apart' = (apart /\ \A s \in Req \ {r} : req[s].pc = "idle")

(* A resource is created and its row written.                              *)
BeginCreate(r, input) ==
  /\ served = Nil /\ \A s \in Req : req[s].pc = "idle"
  /\ \E body \in Clean(input, << >>, FALSE) :
       Set(r, [pc |-> "create", known |-> << >>, body |-> Remarked(body, << >>)])
  /\ UNCHANGED <<kind, served, snap, shown, remark, apart>>

SendCreate(r) ==
  /\ req[r].pc = "create" /\ Set(r, [req[r] EXCEPT !.pc = "created"])
  /\ served' = req[r].body /\ remark' = Known(Over(req[r].body, [des |-> ""]), "des")
  /\ UNCHANGED <<kind, snap, shown, apart>>

SaveCreate(r) ==
  /\ req[r].pc = "created" /\ Set(r, NoWork)
  /\ snap' = Redacted(req[r].body) /\ shown' = Redacted(req[r].body)
  /\ UNCHANGED <<kind, served, remark, apart>>

(* A partial update is checked against the row as read, sent, and merged   *)
(* into the row as read.                                                   *)
BeginUpdate(r, input) ==
  /\ req[r].pc = "idle" /\ snap # Nil
  /\ \E body \in Clean(input, snap, TRUE) : Set(r, [pc |-> "put", known |-> snap, body |-> Remarked(body, snap)])
  /\ Begun(r) /\ remark' = IF Given(input, "des") THEN input.des ELSE remark
  /\ UNCHANGED <<kind, served, snap, shown>>

SendUpdate(r, answered) ==
  /\ req[r].pc = "put" /\ served' = Over(req[r].body, served)
  /\ IF answered THEN Set(r, [req[r] EXCEPT !.pc = "saved"]) /\ UNCHANGED apart
     ELSE Set(r, NoWork) /\ apart' = FALSE
  /\ UNCHANGED <<kind, snap, shown, remark>>

SaveUpdate(r) ==
  /\ req[r].pc = "saved" /\ Set(r, NoWork)
  /\ snap' = Redacted(Over(req[r].body, req[r].known)) /\ shown' = Redacted(served)
  /\ UNCHANGED <<kind, served, remark, apart>>

(* A list shows what the CDN has and brings the row up to date.            *)
BeginList(r) ==
  /\ req[r].pc = "idle" /\ snap # Nil /\ kind # "sites" /\ Begun(r)
  /\ Set(r, [pc |-> "list", known |-> << >>, body |-> served])
  /\ UNCHANGED <<kind, served, snap, shown, remark>>

SaveList(r) ==
  /\ req[r].pc = "list" /\ Set(r, NoWork)
  /\ snap' = Redacted(IF kind = "acls" THEN Over(req[r].body, snap) ELSE req[r].body) /\ shown' = Redacted(req[r].body)
  /\ UNCHANGED <<kind, served, remark, apart>>

FieldsNext ==
  \E r \in Req :
    \/ req[r].pc = "idle" /\ \E input \in Inputs[kind] : BeginCreate(r, input) \/ BeginUpdate(r, input)
    \/ SendCreate(r) \/ SaveCreate(r) \/ SaveUpdate(r) \/ BeginList(r) \/ SaveList(r)
    \/ \E answered \in BOOLEAN : SendUpdate(r, answered)

FieldsSpec == FieldsInit /\ [][FieldsNext]_fieldsVars

-----------------------------------------------------------------------------
(* However a resource is changed piece by piece, one request after the     *)
(* other, its parts fit at the CDN: an uploaded certificate has its own    *)
(* key, credentials are those of the provider, a redirection has an address*)
(* and nothing else has, HTTPS has a certificate; and the customer's       *)
(* remark stays (sanitizeCertificateInput, sanitizeDnsApiInput,            *)
(* sanitizeAclInput, normalizeSiteWriteInput, ownershipPayload).           *)
FitsAtCdn ==
  apart /\ served # Nil =>
    CASE kind = "certs" -> /\ served.type = "custom" => Given(served, "key") /\ Given(served, "cert") /\ Known(served, "key") = Known(served, "cert")
                           /\ served.type = "lets" => Given(served, "domain") /\ (served.domain = "wild" => Given(served, "dnsapi"))
      [] kind = "dnsapis" -> Known(served, "auth") = served.type
      [] kind = "acls" -> (served.action = "reject" /\ served.code = "302") <=> served.url # ""
      [] kind = "sites" -> Known(served, "https") = "on" => Given(served, "pem")

RemarkKept == apart /\ served # Nil /\ kind # "sites" /\ (\A r \in Req : req[r].pc \notin {"create", "put"}) => served.des = remark

(* A secret is neither kept in the row nor answered to the customer.       *)
SecretsGone == DOMAIN shown \cap Secrets = {} /\ (snap # Nil => DOMAIN snap \cap Secrets = {})

(* A request that is accepted and names HTTPS has its way (the comment in  *)
(* normalizeSiteWriteInput: only an already disabled site is left alone).  *)
HttpsAsAsked ==
  \A r \in Req : kind = "sites" /\ req[r].pc = "put" /\ req[r].body = << >> => Known(served, "https") # "on"
=============================================================================
