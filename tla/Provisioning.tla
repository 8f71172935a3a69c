--------------------------- MODULE Provisioning ---------------------------
(***************************************************************************)
(* internet_task: the access point with its web form, the credentials that *)
(* cgi_handler() stores from lwIP's thread, the join, and the MQTT client. *)
(* The thread and the task have the same priority and share no lock for    *)
(* the credentials.                                                        *)
(***************************************************************************)
EXTENDS Integers

CONSTANTS
  Forms,   \* forms that clients of the access point may submit
  NoForm

ASSUME ProvisioningAssumption == NoForm \notin Forms

VARIABLES
  pc,        \* internet_task
  ap,        \* the access point is up
  inflight,  \* forms that have reached the device but not the handler
  cgi,       \* cgi_handler(): [at, form]
  ssid, password,      \* the form each static buffer was copied from
  is_credentials_set,
  used,      \* the ssid and the password the join was given
  overlapped,\* history: cgi_handler() was between its copies when the join read
             \* the ssid, or made one before it had read the password
  joined,    \* its result, which the task does not look at
  mqtt,      \* the client: "none", "idle", "connecting", "connected", "lost"
  request    \* the subscription: "none", "asked", "granted" or "refused"

prov_vars == <<pc, ap, inflight, cgi, ssid, password, is_credentials_set, used,
          overlapped, joined, mqtt, request>>
form == <<inflight, cgi, ssid, password, is_credentials_set>>
join == <<used, overlapped, joined>>
client == <<mqtt, request>>

NotUsed == [ssid |-> NoForm, password |-> NoForm]
NoCgi == [at |-> "idle", form |-> NoForm]

ProvInit ==
  /\ pc = "ap_init" /\ ap = FALSE
  /\ inflight = {} /\ cgi = NoCgi
  /\ ssid = NoForm /\ password = NoForm /\ is_credentials_set = FALSE
  /\ used = NotUsed /\ overlapped = FALSE /\ joined = FALSE
  /\ mqtt = "none" /\ request = "none"
---------------------------------------------------------------------------
\* A client submits a form; lwIP's thread gets to it later.
Submit(f) ==
  /\ ap
  /\ inflight' = inflight \union {f}
  /\ UNCHANGED <<pc, ap, cgi, ssid, password, is_credentials_set, join, client>>

\* A form without ssid or password changes nothing.
CgiEnter(f) ==
  /\ cgi.at = "idle" /\ f \in inflight
  /\ inflight' = inflight \ {f}
  /\ cgi' \in {[at |-> "ssid", form |-> f], [at |-> "leave", form |-> f]}
  /\ UNCHANGED <<pc, ap, ssid, password, is_credentials_set, join, client>>

\* setCredentials(): two copies, then the flag.
SlipKeepsPassword(at) == CASE at = "ssid" -> "flag" [] OTHER -> "leave"
SlipAfter(at) == CASE at = "ssid" -> "flag" [] at = "flag" -> "password"
                   [] OTHER -> "leave"
After(at) == CASE at = "ssid" -> "password" [] at = "password" -> "flag"
               [] OTHER -> "leave"

SetCredentials ==
  /\ cgi.at \in {"ssid", "password", "flag"}
  /\ ssid' = IF cgi.at = "ssid" THEN cgi.form ELSE ssid
  /\ password' = IF cgi.at = "password" THEN cgi.form ELSE password
  /\ is_credentials_set' = (is_credentials_set \/ cgi.at = "flag")
  /\ cgi' = [cgi EXCEPT !.at = After(cgi.at)]
  /\ overlapped' = (overlapped \/ (pc = "password" /\ cgi.at # "flag"))
  /\ UNCHANGED <<pc, ap, inflight, used, joined, client>>

CgiLeave ==
  /\ cgi.at = "leave"
  /\ cgi' = NoCgi
  /\ UNCHANGED <<pc, ap, inflight, ssid, password, is_credentials_set, join, client>>
---------------------------------------------------------------------------
\* ap_init(): when cyw43_arch_init() fails the task still goes on to wait.
ApInit ==
  /\ pc = "ap_init"
  /\ pc' = "wait" /\ ap' \in BOOLEAN
  /\ UNCHANGED <<form, join, client>>

Disconnect ==
  /\ pc = "wait" /\ is_credentials_set
  /\ pc' = "ssid" /\ ap' = FALSE
  /\ UNCHANGED <<form, join, client>>

\* connect() reads both buffers; its result is dropped.
SlipTakesZeroForSuccess == IF joined' THEN "ssid" ELSE "new"
AfterJoin == "new"

JoinSsid ==
  /\ pc = "ssid"
  /\ used' = [used EXCEPT !.ssid = ssid]
  /\ overlapped' = (cgi.at = "password")
  /\ pc' = "password"
  /\ UNCHANGED <<ap, form, joined, client>>

JoinPassword ==
  /\ pc = "password"
  /\ used' = [used EXCEPT !.password = password]
  /\ joined' \in BOOLEAN
  /\ pc' = AfterJoin
  /\ UNCHANGED <<ap, form, overlapped, client>>

\* init() is repeated until there is memory.
NewClient ==
  /\ pc = "new"
  /\ pc' = "resolve" /\ mqtt' = "idle"
  /\ UNCHANGED <<ap, form, join, request>>

\* mqtt_dns_found() asks until the name is resolved, if it ever is: while it is
\* not, it sleeps and asks again.
Resolved ==
  /\ pc = "resolve" /\ joined
  /\ pc' = "connect"
  /\ UNCHANGED <<ap, form, join, client>>

\* connect() may have no tls_config to go on with, and mqtt_client_connect()
\* may fail: neither result is looked at.
MqttConnect ==
  /\ pc = "connect"
  /\ mqtt' \in {"idle", "connecting", "lost"}
  /\ pc' = "subscribe"
  /\ UNCHANGED <<ap, form, join, request>>

\* mqtt_subscribe() queues the request, if the client connects and has room for
\* it; its result is dropped as well.
Subscribe ==
  /\ pc = "subscribe"
  /\ request' \in {"none"} \cup IF mqtt \in {"connecting", "connected"} THEN {"asked"} ELSE {}
  /\ pc' = "publish"
  /\ UNCHANGED <<ap, form, join, mqtt>>

\* mqtt_subscribe_cb() prints what became of it.
Subscribed ==
  /\ mqtt = "connected" /\ request = "asked"
  /\ request' \in {"granted", "refused"}
  /\ UNCHANGED <<pc, ap, form, join, mqtt>>

\* The broker accepts or refuses; the connection may be lost at any time, and
\* the subscription with it.
Broker ==
  /\ mqtt \in {"connecting", "connected"}
  /\ mqtt' \in {"connected", "lost"} \ {mqtt}
  /\ request' = IF mqtt' = "lost" THEN "none" ELSE request
  /\ UNCHANGED <<pc, ap, form, join>>

Thread == (\E f \in Forms : CgiEnter(f)) \/ SetCredentials \/ CgiLeave
UntilJoined == ApInit \/ Disconnect \/ JoinSsid \/ JoinPassword
Task == UntilJoined \/ NewClient \/ Resolved \/ MqttConnect \/ Subscribe
ProvNext == (\E f \in Forms : Submit(f)) \/ Thread \/ Task \/ Broker \/ Subscribed

\* Thread and task are scheduled, and the join ends with its time-out.  Nothing
\* says that there is ever memory for the client or that a name is resolved.
ProvFairness == WF_prov_vars(Thread) /\ WF_prov_vars(UntilJoined)

ProvSpec == ProvInit /\ [][ProvNext]_prov_vars /\ ProvFairness
---------------------------------------------------------------------------
\* The task reads the buffers only after the flag, so that it finds them
\* filled: the join is never tried with what no form has stored.
JoinHasCredentials == pc = "new" => NoForm \notin {used.ssid, used.password}

\* The join takes the ssid of one form and the password of another only when
\* the handler of a later form is at its copies while the task reads: forms
\* that came before, however many, leave a pair that belongs together.
JoinUsesOneForm == pc = "new" /\ ~overlapped => used.ssid = used.password

\* A form that the handler has begun to store gets the task past its wait and
\* its join, whether that works or not, and whatever forms come after it.
StoredIsUsed == cgi.at \in {"ssid", "password", "flag"}
                  ~> pc \notin {"ap_init", "wait", "ssid", "password"}
=============================================================================
