-------------------------------- MODULE Pages --------------------------------
(* The two pages of the web client that show one site (site-detail-view.js)*)
(* or one stream (data-view.js) and send what the customer made of it.     *)
(* What a page knows lives in one state that every late answer writes to.  *)
(* A value is stood for by the site or the stream whose value it is.       *)
EXTENDS Integers, FiniteSets

CONSTANTS
  Site, Stream,
  Req,         \* requests that are not answered at one time
  None,
  Patient      \* no other site is opened while an answer about one is due

VARIABLES
  page,     \* "list", or the page that is shown
  site,     \* state.currentSite: whose number a save goes to
  config,   \* state.currentSiteConfig: whose configuration, None for {}
  stream,   \* state.currentStream
  form,     \* whose values the forms of the two pages hold
  saving,   \* the submit buttons that are disabled
  asked,    \* what is asked and not answered
  sent      \* saves that have been sent (history)

vars == <<page, site, config, stream, form, saving, asked, sent>>

Page == {"site", "stream"}
Call == {"read_site", "put_site", "list_sites", "open_stream", "read_stream", "put_stream"}
Request == [call : Call, id : Site \cup Stream, save : BOOLEAN]

Init ==
  /\ page = "list" /\ site = None /\ config = None /\ stream = None
  /\ form = [p \in Page |-> None] /\ saving = {} /\ sent = {}
  /\ asked = [r \in Req |-> None]

-----------------------------------------------------------------------------
Free(r) == asked[r] = None
(* api: the request is sent; save says that a disabled button waits for it. *)
Ask(r, c, x, save) == asked' = [asked EXCEPT ![r] = [call |-> c, id |-> x, save |-> save]]
Answered(r) == asked' = [asked EXCEPT ![r] = None]
(* finally: the button of the page is enabled again.                        *)
Done(r, p) == saving' = IF asked[r].save THEN saving \ {p} ELSE saving

AboutSite(q) == q # None /\ q.call \in {"read_site", "put_site", "list_sites"}
MayOpen(s) == Patient => s = site \/ \A r \in Req : ~AboutSite(asked[r])

(* siteTable, openSiteDetail: the page is drawn from the row of the list,   *)
(* and the configuration is asked for.                                      *)
OpenSite(r, s) ==
  /\ page = "list" /\ Free(r) /\ MayOpen(s)
  /\ page' = "site" /\ site' = s /\ config' = None /\ form' = [form EXCEPT !["site"] = s]
  /\ Ask(r, "read_site", s, FALSE)
  /\ UNCHANGED <<stream, saving, sent>>

(* The button that reads the configuration again.                           *)
SyncSite(r) ==
  /\ page = "site" /\ Free(r) /\ Ask(r, "read_site", site, FALSE)
  /\ UNCHANGED <<page, site, config, stream, form, saving, sent>>

(* refreshSiteDetail: what was read is laid over state.currentSite as it is *)
(* by then; the number stays that of the site now open.                     *)
ReadSite(r) ==
  /\ asked[r] # None /\ asked[r].call = "read_site"
  /\ config' = asked[r].id /\ form' = [form EXCEPT !["site"] = asked[r].id]
  /\ Answered(r) /\ Done(r, "site")
  /\ UNCHANGED <<page, site, stream, sent>>

(* cancelSiteDetail: the form is drawn again.                               *)
CancelSite ==
  /\ page = "site" /\ form' = [form EXCEPT !["site"] = IF config = None THEN site ELSE config]
  /\ UNCHANGED <<page, site, config, stream, saving, asked, sent>>

(* siteDetailForm: the open section of the form is sent to the open site.   *)
SaveSite(r) ==
  /\ page = "site" /\ "site" \notin saving /\ Free(r)
  /\ saving' = saving \cup {"site"} /\ Ask(r, "put_site", site, TRUE)
  /\ sent' = sent \cup {<<site, form["site"]>>}
  /\ UNCHANGED <<page, site, config, stream, form>>

(* Then the list is loaded; the site saved is made the open one again, with *)
(* the row the list has of it, if any; and it is read.                      *)
SiteSaved(r) ==
  /\ asked[r] # None /\ asked[r].call = "put_site"
  /\ Ask(r, "list_sites", asked[r].id, TRUE)
  /\ UNCHANGED <<page, site, config, stream, form, saving, sent>>

SitesListed(r) ==
  /\ asked[r] # None /\ asked[r].call = "list_sites"
  /\ \E s \in {asked[r].id, site} : site' = s /\ Ask(r, "read_site", s, TRUE)
  /\ UNCHANGED <<page, config, stream, form, saving, sent>>

(* openStreamDetail: the page is shown when the stream has been read.       *)
OpenStream(r, s) ==
  /\ page = "list" /\ Free(r) /\ Ask(r, "open_stream", s, FALSE)
  /\ UNCHANGED <<page, site, config, stream, form, saving, sent>>

StillOpenBug(r) == IF stream = None THEN asked[r].id ELSE stream

(* renderStreamDetail: number and values both come from what was read.      *)
StreamOf(r) == asked[r].id

ReadStream(r) ==
  /\ asked[r] # None /\ asked[r].call \in {"open_stream", "read_stream"}
  /\ stream' = StreamOf(r) /\ form' = [form EXCEPT !["stream"] = asked[r].id]
  /\ page' = IF asked[r].call = "open_stream" THEN "stream" ELSE page
  /\ Answered(r) /\ Done(r, "stream")
  /\ UNCHANGED <<site, config, sent>>

SyncStream(r) ==
  /\ page = "stream" /\ Free(r) /\ Ask(r, "read_stream", stream, FALSE)
  /\ UNCHANGED <<page, site, config, stream, form, saving, sent>>

(* streamDetailForm: the form is sent to the open stream, which is then     *)
(* read, whichever is open by then.                                         *)
SaveStream(r) ==
  /\ page = "stream" /\ "stream" \notin saving /\ Free(r)
  /\ saving' = saving \cup {"stream"} /\ Ask(r, "put_stream", stream, TRUE)
  /\ sent' = sent \cup {<<stream, form["stream"]>>}
  /\ UNCHANGED <<page, site, config, stream, form>>

StreamSaved(r) ==
  /\ asked[r] # None /\ asked[r].call = "put_stream"
  /\ Ask(r, "read_stream", stream, TRUE)
  /\ UNCHANGED <<page, site, config, stream, form, saving, sent>>

(* A request fails: whatever was to follow it does not.                     *)
Fail(r) ==
  /\ asked[r] # None /\ Answered(r)
  /\ Done(r, IF AboutSite(asked[r]) THEN "site" ELSE "stream")
  /\ UNCHANGED <<page, site, config, stream, form, sent>>

(* backToSites, backToStreams, or the navigation.                           *)
Leave == page # "list" /\ page' = "list" /\ UNCHANGED <<site, config, stream, form, saving, asked, sent>>

Next ==
  \/ Leave \/ CancelSite
  \/ \E r \in Req :
       \/ \E s \in Site : OpenSite(r, s)
       \/ \E s \in Stream : OpenStream(r, s)
       \/ SyncSite(r) \/ SaveSite(r) \/ ReadSite(r) \/ SiteSaved(r) \/ SitesListed(r)
       \/ SyncStream(r) \/ SaveStream(r) \/ ReadStream(r) \/ StreamSaved(r)
       \/ Fail(r)

Spec == Init /\ [][Next]_vars

-----------------------------------------------------------------------------
TypeOK ==
  /\ page \in Page \cup {"list"} /\ site \in Site \cup {None} /\ config \in Site \cup {None}
  /\ stream \in Stream \cup {None} /\ saving \subseteq Page
  /\ form["site"] \in Site \cup {None} /\ form["stream"] \in Stream \cup {None}
  /\ \A r \in Req : asked[r] = None \/ asked[r] \in Request
  /\ \A s \in sent : s \in (Site \X Site) \cup (Stream \X Stream)

(* What a page saves goes to the site or the stream whose values it shows,  *)
(* whatever answers came in while the customer went from one to another.    *)
SavedWhole == \A s \in sent : s[1] = s[2]
=============================================================================
