----------------------------- MODULE ClusterForm -----------------------------
(***************************************************************************)
(* The page on which a cluster is created or edited                        *)
(* (ui/pages/create_cluster_page/upsert_cluster_page.go): a form for the   *)
(* cluster on tab F4, one for its schema registry on F5, and its Connect   *)
(* clusters on F6.  Both forms write into one set of values, and which     *)
(* fields a form asks for depends on them: the page remembers the last     *)
(* choices and makes a form anew when one differs.  The state is a record; *)
(* FormUpdate says what a message makes of it and which commands follow.   *)
(*                                                                         *)
(* Left out: colour, host, credentials and paths of certificates, of which *)
(* a completed form is taken to have what its fields demand; which field   *)
(* has the cursor; the notifier, whose handlers act as given here and      *)
(* which has no say over the keys.                                         *)
(***************************************************************************)
EXTENDS ConnectForm, ClusterList

CONSTANT EmptyName \* the empty name input

Names == Items

ASSUME FormAssumption == EmptyName \in Names /\ NoName \notin Names

Transports    == {"none", "plain", "tls"}
Verifications == {"none", "broker", "skip"}

(***************************************************************************)
(* clusterFormValues: `url` is whether a registry URL is entered.          *)
(***************************************************************************)
Values == [name : Names, tls : Transports, ver : Verifications, sasl : BOOLEAN,
           url : BOOLEAN, srTls : Transports, srVer : Verifications]

Blank == [name |-> EmptyName, tls |-> "none", ver |-> "none", sasl |-> FALSE,
          url |-> FALSE, srTls |-> "none", srVer |-> "none"]

(* config.TLSConfig: off, on with or without verification. *)
Security == {"off", "verify", "skip"}
SecurityOf(tls, ver) == IF tls # "tls" THEN "off"
                        ELSE IF ver = "skip" THEN "skip" ELSE "verify"

Details == [tls : Security, sasl : BOOLEAN, registry : Security \cup {"none"}]
DetailsOf(v) ==
  [tls |-> SecurityOf(v.tls, v.ver), sasl |-> v.sasl,
   registry |-> IF v.url THEN SecurityOf(v.srTls, v.srVer) ELSE "none"]

TransportOf(s) == IF s = "none" THEN "none" ELSE IF s = "off" THEN "plain" ELSE "tls"
VerificationOf(s) == IF s = "skip" THEN "skip" ELSE IF s = "verify" THEN "broker" ELSE "none"
ValuesOf(c) ==
  [name  |-> c.name,
   tls   |-> TransportOf(c.details.tls), ver |-> VerificationOf(c.details.tls),
   sasl  |-> c.details.sasl,
   url   |-> c.details.registry # "none",
   srTls |-> TransportOf(c.details.registry),
   srVer |-> VerificationOf(c.details.registry)]

(***************************************************************************)
(* The fields that come and go in the cluster's and the registry's form.   *)
(***************************************************************************)
CFields(v) ==
  (IF v.tls = "tls" THEN {"ver", "client"} ELSE {})
    \cup (IF v.ver = "broker" THEN {"ca"} ELSE {})
    \cup (IF v.sasl THEN {"credentials"} ELSE {})

SrFields(v) ==
  IF v.srTls # "tls" THEN {}
  ELSE {"srVer", "client"} \cup (IF v.srVer = "broker" THEN {"ca"} ELSE {})

(***************************************************************************)
(* A huh form: its fields, whether it is completed (and deaf from then     *)
(* on), and the values it writes to: the page's, or a copy of its own once *)
(* ctrl+r has put new ones in their place.                                 *)
(***************************************************************************)
HuhForm(fields) == [fields |-> fields, done |-> FALSE, own |-> <<>>]

NewPage(editing, v, name, known) ==
  [editing |-> editing, saved |-> editing, pre |-> name, opened |-> name,
   values |-> v,
   c  |-> HuhForm(CFields(v)), sr |-> HuhForm(SrFields(v)),
   shown |-> "c", tab |-> "c", loading |-> FALSE,
   tls |-> v.tls, ver |-> v.ver, sasl |-> v.sasl, \* the choices remembered
   kc |-> NewKcForm(known)]

CreatePage  == NewPage(FALSE, Blank, NoName, <<>>)
EditPage(c) == [NewPage(TRUE, ValuesOf(c), c.name, c.connect) EXCEPT
                  !.pre = IF c.name = EmptyName THEN NoName ELSE @]

(* createCForm, createSrForm; the new form is the one shown. *)
RecreateC(f)  == [f EXCEPT !.c = HuhForm(CFields(f.values)), !.shown = "c"]
RecreateSr(f) == [f EXCEPT !.sr = HuhForm(SrFields(f.values)), !.shown = "sr"]

Shown(f) == IF f.shown = "c" THEN f.c ELSE f.sr
Written(f, form) == IF form.own = <<>> THEN f.values ELSE form.own[1]

(* getRegistrationDetails *)
RegistrationOf(f) ==
  [name    |-> IF f.pre = NoName THEN f.values.name ELSE f.pre,
   newName |-> IF f.pre # NoName /\ f.values.name # f.pre THEN f.values.name ELSE NoName,
   details |-> DetailsOf(f.values),
   connect |-> ClusterDetails(f.kc)]

-----------------------------------------------------------------------------
(* huh.Form.Update: an edit of a field, or the enter that completes it.    *)

\* The validation of the name.
ValidName(cs, f, n) ==
  n # EmptyName /\ (n \in InUse(cs) => n = f.pre)

(* A field is there to be edited; a chosen transport cannot be taken back. *)
Has(f, field) ==
  /\ f.shown = "sr" <=> field \in {"url", "srTls", "srVer"}
  /\ field \in {"ver", "srVer"} => field \in Shown(f).fields

Completes(cs, f) ==
  LET v == Written(f, Shown(f))
  IN  IF f.shown = "c"
      THEN /\ ValidName(cs, f, v.name)
           /\ v.tls # "none"
           /\ "ver" \in f.c.fields => v.ver # "none"
      ELSE /\ v.srTls # "none"
           /\ "srVer" \in f.sr.fields => v.srVer # "none"

Edited(f, msg) ==
  LET v == [Written(f, Shown(f)) EXCEPT ![msg.field] = msg.value]
  IN  IF Shown(f).own = <<>> THEN [f EXCEPT !.values = v]
      ELSE [f EXCEPT ![f.shown].own = <<v>>]

HuhUpdate(cs, f, msg) ==
  IF Shown(f).done THEN f
  ELSE IF msg.type = "edit" /\ Has(f, msg.field) THEN Edited(f, msg)
  ELSE IF IsKey(msg, "enter") /\ Completes(cs, f) THEN [f EXCEPT ![f.shown].done = TRUE]
  ELSE f

-----------------------------------------------------------------------------
(* What the cluster tab makes of a change.                                 *)

\* updateTransportOption
AfterTransport(f) ==
  IF f.values.tls = "tls" /\ f.tls # "tls" THEN [RecreateC(f) EXCEPT !.tls = "tls"]
  ELSE IF f.values.tls = "plain" /\ f.tls = "tls"
    THEN RecreateC([f EXCEPT !.tls = "plain", !.ver = "none", !.values.ver = "none"])
  ELSE f

\* A bug: the form is made anew when verification is chosen, not when it is
\* given up.
AfterVerificationOnce(f) ==
  IF f.values.ver = "broker" /\ f.ver # "broker"
  THEN [RecreateC(f) EXCEPT !.ver = "broker"]
  ELSE f

\* updateVO
AfterVerification(f) ==
  IF (f.values.ver = "broker") # (f.ver = "broker")
  THEN [RecreateC(f) EXCEPT !.ver = f.values.ver]
  ELSE f

\* The authentication method, in updateClusterTab.
AfterAuth(f) ==
  IF f.values.sasl # f.sasl THEN [RecreateC(f) EXCEPT !.sasl = f.values.sasl] ELSE f

(* The schema registry tab uses the same memory. *)

\* updateSrTransportOption
AfterSrTransport(f) ==
  LET g == IF \/ f.values.srTls = "tls" /\ f.tls # "tls"
              \/ f.values.srTls = "plain" /\ f.tls = "tls"
           THEN RecreateSr(f) ELSE f
  IN  [g EXCEPT !.tls = f.values.srTls]

\* updateSrVO
AfterSrVerification(f) ==
  IF \/ f.values.srVer = "broker" /\ f.ver # "broker"
     \/ f.values.srVer = "skip" /\ f.ver = "broker"
  THEN [RecreateSr(f) EXCEPT !.ver = f.values.srVer]
  ELSE f

(***************************************************************************)
(* A completed form is submitted once: no second check while one is        *)
(* awaited.  Without a URL there is no registry to check, and the check    *)
(* dereferences nil.                                                       *)
(***************************************************************************)
Submitted(f, check) ==
  IF Shown(f).done /\ ~ f.loading
  THEN Does([f EXCEPT !.loading = TRUE],
            <<IF check = "srcheck" /\ ~ f.values.url THEN "crash" ELSE check>>)
  ELSE Does(f, <<>>)

(* The end of Update: form, tab, submission. *)
Chosen(f) ==
  IF f.tab = "c" THEN AfterAuth(AfterVerification(AfterTransport(f)))
  ELSE AfterSrVerification(AfterSrTransport(f))

AfterForm(cs, f, msg) ==
  Submitted(Chosen(HuhUpdate(cs, f, msg)), IF f.tab = "c" THEN "kcheck" ELSE "srcheck")

-----------------------------------------------------------------------------
(* Keys.                                                                   *)

(***************************************************************************)
(* Ctrl+r puts blank values in the place of the page's and makes one form  *)
(* anew; the other one keeps writing to the values it was made with.       *)
(***************************************************************************)
Detached(form, v) == IF form.own = <<>> THEN [form EXCEPT !.own = <<v>>] ELSE form

Reset(f) ==
  LET blank == [f EXCEPT !.values = Blank, !.c = Detached(@, f.values),
                         !.sr = Detached(@, f.values)]
  IN  IF f.tab = "c"
      THEN RecreateC([blank EXCEPT !.tls = "none", !.ver = "none", !.sasl = FALSE])
      ELSE RecreateSr(blank)

ToClusterTab(f) == [f EXCEPT !.shown = "c", !.tab = "c"]

ToRegistryTab(f) ==
  IF f.saved THEN [f EXCEPT !.shown = "sr", !.sr.done = FALSE, !.tab = "sr"] ELSE f

ToConnectTab(f) ==
  IF f.editing
  THEN [f EXCEPT ![f.shown].done = FALSE, !.tab = "kc", !.kc = Drawn(@)] ELSE f

-----------------------------------------------------------------------------
(* Messages.  The Connect tab hears of them only while it is shown; what   *)
(* the notifier has a handler for goes no further.                         *)

KcShown(f, o) == Does([f EXCEPT !.kc = Drawn(o.next)], o.cmds)
KcStep(f, msg, row) == KcShown(f, KcUpdate(f.kc, msg, row))

KcOnly == {"kStarted", "kOk", "kErr", "srErr", "kcErr", "kcStarted", "kcOk", "registered"}

Onward(cs, f, msg, row) ==
  IF f.tab = "kc" THEN KcStep(f, msg, row)
  ELSE IF msg.type \in KcOnly THEN Does(f, <<>>)
  ELSE AfterForm(cs, f, msg)

(* What a message does before it goes on; the name to update next is the   *)
(* one a registration returns.                                             *)
Heard(f, msg) ==
  IF msg.type \in {"kStarted", "srStarted"} THEN [f EXCEPT !.loading = TRUE]
  ELSE IF msg.type = "kOk" THEN [f EXCEPT !.loading = FALSE]
  ELSE IF msg.type = "registered"
    THEN [f EXCEPT !.pre = msg.cluster.name, !.loading = FALSE, !.saved = TRUE]
  ELSE IF IsKey(msg, "ctrl+r") THEN Reset(f)
  ELSE f

(* And after that: a form done with is made anew, also when a check has    *)
(* failed, which is the notifier's handler.                                *)
Renewed(f, msg) ==
  IF msg.type = "kErr" THEN [RecreateC(f) EXCEPT !.loading = FALSE]
  ELSE IF msg.type = "srErr" THEN [RecreateSr(f) EXCEPT !.loading = FALSE]
  ELSE IF msg.type = "kcErr" THEN [f EXCEPT !.kc = KcFailed(@)]
  ELSE IF msg.type = "registered" /\ f.tab = "c" THEN RecreateC(f)
  ELSE IF msg.type = "registered" /\ f.tab = "sr" THEN RecreateSr(f)
  ELSE f

Asked(msg) ==
  IF msg.type \in {"kStarted", "srStarted"} THEN <<"await">>
  ELSE IF msg.type = "kOk" THEN <<"register">>
  ELSE <<>>

Completed(o, msg) ==
  Does(Renewed(o.next, msg), Asked(msg) \o o.cmds)

(* Model.Update *)
FormUpdate(cs, f, msg, row) ==
  IF IsKey(msg, "esc") /\ f.tab # "kc" THEN Does(f, <<"list">>)
  ELSE IF IsKey(msg, "f4") THEN Does(ToClusterTab(f), <<>>)
  ELSE IF IsKey(msg, "f5") THEN Does(ToRegistryTab(f), <<>>)
  ELSE IF IsKey(msg, "f6") THEN Does(ToConnectTab(f), <<>>)
  ELSE IF msg.type = "srOk" THEN Does([f EXCEPT !.loading = FALSE], <<"register">>)
  ELSE Completed(Onward(cs, Heard(f, msg), msg, row), msg)
=============================================================================
