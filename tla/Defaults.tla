------------------------------ MODULE Defaults ------------------------------
(***************************************************************************)
(* The local groups of a customer and the values that new sites and        *)
(* streams get by default (user-compat.js, user-defaults.js, the group     *)
(* handlers of tenant-proxy.js), and the migration of groups that runs at  *)
(* every start (db.js).  A default applies to everything or to one group.  *)
(* Sites and streams are written under the resource lock, one at a time;   *)
(* groups and defaults take no lock, so that a group may be deleted        *)
(* between the check that it exists and the row that refers to it.  There  *)
(* is one customer with one site or one stream; the settings are those     *)
(* that its row keeps too (compression, WebSocket, ...), and a value is    *)
(* the default it comes from, or the customer's own.                       *)
(***************************************************************************)
EXTENDS Integers, FiniteSets

CONSTANTS Setting,    \* what a default may be for
          Config,     \* the defaults that may be stored
          Req,        \* requests that change a default or delete a group
          Name,       \* the names of groups, "old" among them
          MaxGroup,   \* groups that are ever made
          Upgraded,   \* the numbers the row of a group may have kept from an older version
          None

VARIABLES kind,       \* what there is: a site or a stream
          legacy,     \* the number of that row, 0 for none; its name is "old"
          group,      \* the name of each group, None if there is none
          last,       \* the number given out last
          config,     \* setting, group and switch of each default
          row,        \* the row of the site or stream: its group and its values
          cdn,        \* the values at the CDN
          work,       \* the request that holds the lock; history: what was arranged when it began
          touched,    \* history: defaults changed under it, but for the end of its group
          cut,        \* history: a group was deleted under the request, or a row kept from before
          req

vars == <<kind, legacy, group, last, config, row, cdn, work, touched, cut, req>>

Number == 1..MaxGroup
Scope == 0..MaxGroup            \* 0 stands for "global" and for NULL
Values == [Setting -> Config \cup {"own", None}]
Standing == {0} \cup {g \in Number : group[g] # None}
Stands(g) == g \in Standing

Free == [pc |-> "idle", way |-> None, group |-> 0, input |-> {}, val |-> None, before |-> None]
Idle == [pc |-> "idle", config |-> None, to |-> None, group |-> 0]

TypeOK ==
  /\ kind \in {"site", "stream"} /\ legacy \in {0} \cup Upgraded /\ group \in [Number -> Name \cup {None}] /\ last \in Scope
  /\ config \in [Config -> {None} \cup [setting : Setting, scope : Scope, on : BOOLEAN]]
  /\ row \in {None} \cup [group : Scope, val : Values] /\ cdn \in Values \cup {None}
  /\ work \in [pc : {"idle", "checked", "insert", "post", "regroup", "put", "save"},
               way : {None, "single", "batch", "stream"}, group : Scope, input : SUBSET Setting,
               val : Values \cup {None}, before : Values \cup {None}]
  /\ touched \in BOOLEAN /\ cut \in BOOLEAN
  /\ req \in [Req -> [pc : {"idle", "post", "put", "delete"}, config : Config \cup {None}, group : Scope,
                      to : {None} \cup [setting : Setting, scope : Scope, on : BOOLEAN]]]

Nothing == [s \in Setting |-> None]

(* An older version may have left a group, which the first start migrates. *)
Init ==
  /\ kind \in {"site", "stream"} /\ legacy \in {0} \cup Upgraded
  /\ group = [g \in Number |-> IF legacy # 0 /\ g = 1 THEN "old" ELSE None] /\ last = IF legacy = 0 THEN 0 ELSE 1
  /\ config = [c \in Config |-> None] /\ row = None /\ cdn = None /\ work = Free
  /\ touched = FALSE /\ cut = FALSE /\ req = [r \in Req |-> Idle]

-----------------------------------------------------------------------------
On(s, scope) == {c \in Config : config[c] # None /\ config[c] = [setting |-> s, scope |-> scope, on |-> TRUE]}
Layer(scope) == [s \in {s \in Setting : On(s, scope) # {}} |-> CHOOSE c \in On(s, scope) : TRUE]
Given(input) == [s \in input |-> "own"]
(* The values of f, and those of g where f has none.                       *)
Over(f, g) == [x \in DOMAIN f \cup DOMAIN g |-> IF x \in DOMAIN f THEN f[x] ELSE g[x]]

(* Plausible faults of the code.                                           *)
GlobalLastBug(g, input) == Over(Given(input), Over(Layer(0), Over(IF g = 0 THEN Layer(0) ELSE Layer(g), Nothing)))
TwiceBug(w) == Over(Given(w.input), Over(Layer(w.group), Over(Layer(0), Nothing)))

(* applyUserDefaults: the rows in order, those of the group after those    *)
(* for everything; the input over them.                                    *)
Merged(g, input) ==
  Over(Given(input), Over(IF g = 0 THEN Layer(0) ELSE Over(Layer(g), Layer(0)), Nothing))

(* What is arranged for a group: its own default, or the one for           *)
(* everything.                                                             *)
Due(g) ==
  [s \in Setting |->
    LET its == IF On(s, g) # {} THEN On(s, g) ELSE On(s, 0) IN IF its = {} THEN None ELSE CHOOSE c \in its : TRUE]

(* The row records what was sent.                                          *)
Recorded(w) == w.val

(* When a group goes, its defaults apply to everything.                    *)
Outlived(g, c) == IF config[c] # None /\ config[c].scope = g THEN [config[c] EXCEPT !.scope = 0] ELSE config[c]

history == <<touched, cut>>
Touch(also) == touched' = (touched \/ (also /\ work.pc # "idle"))
things == <<kind, legacy, row, cdn, work, cut>>

-----------------------------------------------------------------------------
(* Groups.                                                                 *)
MakeGroup(name) ==
  /\ last < MaxGroup /\ \A g \in Number : group[g] # name
  /\ group' = [group EXCEPT ![last + 1] = name] /\ last' = last + 1
  /\ UNCHANGED <<things, config, touched, req>>

BeginDelete(r) ==
  /\ req[r].pc = "idle"
  /\ \E g \in Number : group[g] # None /\ req' = [req EXCEPT ![r] = [pc |-> "delete", config |-> None, to |-> None, group |-> g]]
  /\ UNCHANGED <<things, group, last, config, touched>>

(* One transaction.  What was in the group is in none.  If one of its      *)
(* defaults is also set for everything, nothing is deleted.                *)
Taken(c, to) == \E d \in Config \ {c} : config[d] # None /\ config[d].setting = to.setting /\ config[d].scope = to.scope
Delete(r) ==
  LET g == req[r].group
      its == {c \in Config : config[c] # None /\ config[c].scope = g} IN
    /\ req[r].pc = "delete" /\ req' = [req EXCEPT ![r] = Idle]
    /\ IF \E c \in its : Taken(c, [config[c] EXCEPT !.scope = 0]) THEN UNCHANGED <<group, config, row, cut, touched>>
       ELSE /\ group' = [group EXCEPT ![g] = None]
            /\ config' = [c \in Config |-> Outlived(g, c)]
            /\ row' = IF row # None /\ row.group = g THEN [row EXCEPT !.group = 0] ELSE row
            /\ cut' = (cut \/ work.pc # "idle") /\ Touch(g # work.group)
    /\ UNCHANGED <<kind, legacy, last, cdn, work>>

-----------------------------------------------------------------------------
(* Defaults: the row is read and the group checked; all of the row is      *)
(* written later.  No two defaults of one scope are for the same setting.  *)
Ask(r, pc, c, to) ==
  /\ req[r].pc = "idle" /\ to.scope \in Standing
  /\ req' = [req EXCEPT ![r] = [pc |-> pc, config |-> c, to |-> to, group |-> 0]]
  /\ UNCHANGED <<things, group, last, config, touched>>
BeginPost(r) ==
  \E c \in Config, s \in Setting, scope \in Scope : config[c] = None /\ Ask(r, "post", c, [setting |-> s, scope |-> scope, on |-> TRUE])
BeginPut(r) ==
  \E c \in Config : config[c] # None
    /\ \/ \E scope \in Scope \ {config[c].scope} : Ask(r, "put", c, [config[c] EXCEPT !.scope = scope])
       \/ Ask(r, "put", c, [config[c] EXCEPT !.on = ~@])
Write(r, there) ==
  LET c == req[r].config
      to == req[r].to IN
    /\ req' = [req EXCEPT ![r] = Idle]
    /\ IF (config[c] # None) = there /\ ~Taken(c, to) THEN config' = [config EXCEPT ![c] = to] /\ Touch(TRUE)
       ELSE UNCHANGED <<config, touched>>
    /\ UNCHANGED <<things, group, last>>
Post(r) == req[r].pc = "post" /\ Write(r, FALSE)
Put(r) == req[r].pc = "put" /\ Write(r, TRUE)
DeleteConfig ==
  /\ \E c \in Config : config[c] # None /\ config' = [config EXCEPT ![c] = None]
  /\ Touch(TRUE) /\ UNCHANGED <<things, group, last, req>>

-----------------------------------------------------------------------------
(* A new site or stream.  The group is checked, then the defaults are      *)
(* read.  A row that refers to a group that is gone cannot be written.     *)
lists == <<kind, legacy, group, last, config, req>>
To(pc) == work' = [work EXCEPT !.pc = pc]

BeginCreate ==
  /\ work.pc = "idle" /\ row = None /\ cdn = None
  /\ \E way \in IF kind = "site" THEN {"single", "batch"} ELSE {"stream"}, g \in Standing, input \in SUBSET Setting :
       /\ work' = [pc |-> "checked", way |-> way, group |-> g, input |-> input, val |-> None, before |-> Due(g)]
  /\ touched' = FALSE /\ cut' = FALSE /\ UNCHANGED <<lists, row, cdn>>
ApplyDefaults ==
  /\ work.pc = "checked"
  /\ work' = [work EXCEPT !.pc = IF work.way = "single" THEN "insert" ELSE "post", !.val = Merged(work.group, work.input)]
  /\ UNCHANGED <<lists, row, cdn, history>>

(* app.js makes the row first, and removes it if the CDN refuses.          *)
InsertFirst ==
  /\ work.pc = "insert" /\ work.way = "single"
  /\ IF Stands(work.group) THEN row' = [group |-> work.group, val |-> Recorded(work)] /\ To("post")
     ELSE work' = Free /\ UNCHANGED row
  /\ UNCHANGED <<lists, cdn, history>>
SendFirst ==
  /\ work.pc = "post" /\ work.way = "single" /\ work' = Free
  /\ \/ cdn' = work.val /\ UNCHANGED row
     \/ row' = None /\ UNCHANGED cdn
  /\ UNCHANGED <<lists, history>>

(* The compatible API asks the CDN first: a site has no row if its group   *)
(* is gone by then; the row of a stream is there before its group.         *)
Send ==
  /\ work.pc = "post" /\ work.way \in {"batch", "stream"}
  /\ \/ cdn' = work.val /\ To("insert")
     \/ work' = Free /\ UNCHANGED cdn
  /\ UNCHANGED <<lists, row, history>>
Insert ==
  /\ work.pc = "insert" /\ work.way = "batch" /\ work' = Free
  /\ row' = IF Stands(work.group) THEN [group |-> work.group, val |-> Recorded(work)] ELSE None
  /\ UNCHANGED <<lists, cdn, history>>
InsertStream ==
  /\ work.pc = "insert" /\ work.way = "stream" /\ row' = [group |-> 0, val |-> Recorded(work)] /\ To("regroup")
  /\ UNCHANGED <<lists, cdn, history>>
Regroup ==
  /\ work.pc = "regroup" /\ work' = Free
  /\ row' = IF Stands(work.group) THEN [row EXCEPT !.group = work.group] ELSE row
  /\ UNCHANGED <<lists, cdn, history>>

(* An update: of the group, or of something else, but the group that was   *)
(* read is written with it: to a site in one statement, to a stream in a   *)
(* second one.                                                             *)
BeginUpdate ==
  /\ work.pc = "idle" /\ row # None /\ cdn # None
  /\ \E g \in Standing \cup {row.group}, input \in SUBSET Setting :
       work' = [Free EXCEPT !.pc = "put", !.group = g, !.input = input]
  /\ UNCHANGED <<lists, row, cdn, history>>
PutFirst ==
  /\ work.pc = "put"
  /\ \/ cdn' = Over(Given(work.input), cdn) /\ To("save")
     \/ work' = Free /\ UNCHANGED cdn
  /\ UNCHANGED <<lists, row, history>>
Save ==
  /\ work.pc = "save" /\ work' = Free
  /\ LET val == Over(Given(work.input), row.val) IN
       row' = IF Stands(work.group) THEN [group |-> work.group, val |-> val]
              ELSE IF kind = "stream" THEN [row EXCEPT !.val = val] ELSE row
  /\ UNCHANGED <<lists, cdn, history>>

-----------------------------------------------------------------------------
(* Every start migrates once more: the group is made if no group has its   *)
(* name, and defaults whose scope is the number of the old row are moved   *)
(* to it.  Numbers of rows and of groups are given out separately.  If a   *)
(* statement fails, the program does not start.                            *)
Home == IF \E g \in Number : group[g] = "old" THEN CHOOSE g \in Number : group[g] = "old" ELSE last + 1
Moving == {c \in Config : config[c] # None /\ config[c].scope = legacy}
StartFails == legacy # 0 /\ \E c \in Moving : legacy # Home /\ Taken(c, [config[c] EXCEPT !.scope = Home])
Restart ==
  /\ ~StartFails
  /\ IF legacy = 0 \/ Home > MaxGroup THEN UNCHANGED <<group, last, config>>
     ELSE /\ group' = [group EXCEPT ![Home] = "old"] /\ last' = IF Home > last THEN Home ELSE last
          /\ config' = [c \in Config |-> IF c \in Moving THEN [config[c] EXCEPT !.scope = Home] ELSE config[c]]
  /\ req' = [r \in Req |-> Idle] /\ work' = Free /\ cut' = (cut \/ work.pc # "idle") /\ touched' = FALSE
  /\ UNCHANGED <<kind, legacy, row, cdn>>

Next ==
  \/ \E name \in Name : MakeGroup(name)
  \/ \E r \in Req : BeginDelete(r) \/ Delete(r) \/ BeginPost(r) \/ Post(r) \/ BeginPut(r) \/ Put(r)
  \/ DeleteConfig \/ BeginCreate \/ ApplyDefaults \/ InsertFirst \/ SendFirst \/ Send \/ Insert \/ InsertStream \/ Regroup
  \/ BeginUpdate \/ PutFirst \/ Save \/ Restart
Spec == Init /\ [][Next]_vars

-----------------------------------------------------------------------------
(* API_COMPATIBILITY.md: a new site gets what was arranged when it was     *)
(* asked for, its own input first, then its group, then what applies to    *)
(* everything, also if its group is deleted under the request.             *)
AsArranged ==
  work.pc \in {"insert", "post", "regroup"} /\ ~touched =>
    \A s \in Setting : work.val[s] = IF s \in work.input THEN "own" ELSE work.before[s]

(* However groups and defaults change meanwhile, the row says what the CDN *)
(* serves when a request is over, unless a group was deleted under it.     *)
RowFollows == work.pc = "idle" /\ ~cut => IF row = None THEN cdn = None ELSE row.val = cdn

(* README.md: a start of the program does not fail.                        *)
NextStartWorks == ~StartFails
=============================================================================
