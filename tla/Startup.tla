------------------------------- MODULE Startup -------------------------------
(***************************************************************************)
(* enter_started_state, from hal_wifi_init to the end of start_udp: how a  *)
(* controller gets on the network, and how the Wi-Fi event handler of the  *)
(* ESP32 and a late DNS answer go on after that.                           *)
(*                                                                         *)
(*   esp32          an event handler connects and reconnects, wifi_check   *)
(*                  waits for two bits; getaddrinfo                        *)
(*   pico           connect until connected; lwIP's DNS with a callback,   *)
(*   pico_freertos  under lwIP's lock, and a poll with a time-out.  On the *)
(*                  bare Pico the callback is an interrupt on the core of  *)
(*                  enter_started_state; under FreeRTOS it is a task       *)
(*   posix          both POSIX ports: no Wi-Fi; getaddrinfo                *)
(*                                                                         *)
(* lwIP's lock is recursive and on the bare Pico it belongs to a core, so  *)
(* the interrupt that sends a periodic request enters it in the middle of  *)
(* the callback.  Under FreeRTOS an interrupt must not take it at all.     *)
(* Requests are therefore taken to come at any moment on both.             *)
(***************************************************************************)
EXTENDS Naturals

CONSTANTS
  Platforms,     \* of the four above
  wifi_retries,  \* max_retries of wifi.c, 10 in the code
  max_attempts   \* of dns.c, 1500 in the code

ASSUME StartupAssumption ==
  /\ Platforms \subseteq {"esp32", "pico", "pico_freertos", "posix"}
  /\ wifi_retries \in Nat
  /\ max_attempts \in Nat

VARIABLES
  platform,     \* a behaviour is on one of them
  main,         \* where enter_started_state is
  station,      \* the ESP32's Wi-Fi station
  bits,         \* wifi_event_group
  retry_count,
  in_a_row,     \* not in the code: losses since the last address, or boot
  most,         \* not in the code: the most there have been of those
  dns,          \* the query: "none", "asked", "copying" its answer, "done"
  attempts,
  resolved,     \* server_address_resolved
  address,      \* server_address is set
  socket,       \* udp_socket_fd or server_udp_pcb is there to send with
  receiver,     \* and there is somebody to receive
  reported,     \* not in the code: the log says the address is resolved
  misdirected   \* not in the code: a request went to address 0 although
                \* the log says that there is a better one

wifiVars == <<station, bits, retry_count, in_a_row, most>>
dnsVars  == <<dns, attempts, resolved, address, reported>>
udpVars  == <<socket, receiver, misdirected>>
startupVars == <<platform, main, wifiVars, dnsVars, udpVars>>

Esp32 == platform = "esp32"
Pico  == platform \in {"pico", "pico_freertos"}

StartupInit ==
  /\ platform \in Platforms
  /\ main = "wifi"
  /\ station = "off" /\ bits = {} /\ retry_count = 0 /\ in_a_row = 0 /\ most = 0
  /\ dns = "none" /\ attempts = 0 /\ resolved = FALSE /\ address = FALSE
  /\ reported = FALSE
  /\ socket = FALSE /\ receiver = FALSE /\ misdirected = FALSE

-------------------------------------------------------------------------------
(* Wi-Fi. *)

\* wifi_check on the ESP32: esp_wifi_start, then wait for either bit, and go on
\* in both cases.
wifi_start ==
  /\ main = "wifi" /\ Esp32 /\ station = "off"
  /\ station' = "starting"
  /\ UNCHANGED <<platform, main, bits, retry_count, in_a_row, most, dnsVars, udpVars>>

WaitedForWifi ==
  /\ main = "wifi" /\ Esp32 /\ bits # {}
  /\ main' = "resolve"
  /\ UNCHANGED <<platform, wifiVars, dnsVars, udpVars>>

\* wifi_check on the Pico tries until it is connected: a try that fails changes
\* nothing.  On POSIX there is nothing to do.
Connected ==
  /\ main = "wifi" /\ ~Esp32
  /\ main' = "resolve"
  /\ UNCHANGED <<platform, wifiVars, dnsVars, udpVars>>

\* event_handler: WIFI_EVENT_STA_START.
StaStart ==
  /\ station = "starting"
  /\ station' = "connecting"
  /\ UNCHANGED <<platform, main, bits, retry_count, in_a_row, most, dnsVars, udpVars>>

\* The access point takes the station; the handler has no case for it.
Associate ==
  /\ station = "connecting"
  /\ station' = "associated"
  /\ UNCHANGED <<platform, main, bits, retry_count, in_a_row, most, dnsVars, udpVars>>

\* MUTANT of Retries: not reset when there is an address.
RetriesGoOn == retry_count

\* The tries there have been once there is an address.
Retries == 0

\* IP_EVENT_STA_GOT_IP.
GotIp ==
  /\ station = "associated"
  /\ station' = "up"
  /\ retry_count' = Retries
  /\ in_a_row' = 0
  /\ bits' = bits \cup {"CONNECTED"}
  /\ UNCHANGED <<platform, main, most, dnsVars, udpVars>>

TryAgain == retry_count < wifi_retries

\* MUTANT of GiveUp: nobody is told.
GiveUpSilently == {}

GiveUp == {"FAIL"}

\* WIFI_EVENT_STA_DISCONNECTED: a try that failed or a network that is lost.
Disconnected ==
  /\ station \in {"connecting", "associated", "up"}
  /\ IF TryAgain
     THEN station' = "connecting" /\ retry_count' = retry_count + 1 /\ UNCHANGED bits
     ELSE station' = "idle" /\ bits' = bits \cup GiveUp /\ UNCHANGED retry_count
  /\ in_a_row' = IF in_a_row > wifi_retries THEN in_a_row ELSE in_a_row + 1
  /\ most' = IF in_a_row' > most THEN in_a_row' ELSE most
  /\ UNCHANGED <<platform, main, dnsVars, udpVars>>

-------------------------------------------------------------------------------
(* Name resolution and the socket. *)

\* The DNS callback on the bare Pico interrupts enter_started_state.
MainRuns == platform = "pico" => dns # "copying"

\* MUTANT of LwipUnlocked: the lock is not taken.
NoLock == TRUE

\* lwIP's lock, held by whoever runs the DNS callback, as a task finds it.
LwipUnlocked == dns # "copying"

\* dns_gethostbyname: the address is known, or asked for, or neither.
resolve_server_address ==
  /\ main = "resolve" /\ Pico
  /\ main' = "poll"
  /\ \/ resolved' = TRUE /\ address' = TRUE /\ UNCHANGED dns
     \/ dns' = "asked" /\ UNCHANGED <<resolved, address>>
     \/ UNCHANGED <<dns, resolved, address>>
  /\ UNCHANGED <<platform, wifiVars, attempts, reported, udpVars>>

\* server_dns_found: the flag first, then the address.
DnsFound ==
  /\ dns = "asked"
  /\ dns' = "copying" /\ resolved' = TRUE
  /\ UNCHANGED <<platform, main, wifiVars, attempts, address, reported, udpVars>>

CopyAddress ==
  /\ dns = "copying"
  /\ dns' = "done" /\ address' = TRUE
  /\ UNCHANGED <<platform, main, wifiVars, attempts, resolved, reported, udpVars>>

DnsFailed ==
  /\ dns = "asked"
  /\ dns' = "done"
  /\ UNCHANGED <<platform, main, wifiVars, attempts, resolved, address, reported, udpVars>>

\* resolve_server_address_blocking, every 20 ms; it does not look at `address`.
Poll ==
  /\ main = "poll" /\ MainRuns
  /\ IF resolved \/ attempts = max_attempts
     THEN main' = "bind" /\ reported' = resolved /\ UNCHANGED attempts
     ELSE attempts' = attempts + 1 /\ UNCHANGED <<main, reported>>
  /\ UNCHANGED <<platform, wifiVars, dns, resolved, address, udpVars>>

\* init_udp_socket, under the lock; start_udp ignores its result.
init_udp_socket ==
  /\ main = "bind" /\ MainRuns /\ LwipUnlocked
  /\ main' = "started"
  /\ \E ok \in BOOLEAN : socket' = ok /\ receiver' = ok
  /\ UNCHANGED <<platform, wifiVars, dnsVars, misdirected>>

\* The address, by a getaddrinfo that waits as long as it takes.
resolve_server_address_blocking(found) ==
  resolved' = found /\ address' = found /\ reported' = found

\* start_udp has somebody receive only if all of create_udp_socket went well;
\* enter_started_state does not ask, and schedules INITIALIZED.
start_udp(created) == receiver' = created /\ main' = "started"

create_udp_socket ==
  /\ main = "resolve" /\ ~Pico
  /\ \E found, opened, bound \in BOOLEAN :
       /\ resolve_server_address_blocking(found)
       /\ socket' = (found /\ opened)
       /\ start_udp(found /\ opened /\ bound)
  /\ UNCHANGED <<platform, wifiVars, dns, attempts, misdirected>>

\* A request of INITIALIZED or later, from the event loop or from a timer;
\* nothing is sent if there is no socket, which nobody asks.
send_udp_request ==
  /\ main = "started"
  /\ misdirected' = (misdirected \/ (socket /\ reported /\ ~address))
  /\ UNCHANGED <<platform, main, wifiVars, dnsVars, socket, receiver>>

StartupNext ==
  \/ wifi_start \/ WaitedForWifi \/ Connected
  \/ StaStart \/ Associate \/ GotIp \/ Disconnected
  \/ resolve_server_address \/ DnsFound \/ CopyAddress \/ DnsFailed \/ Poll
  \/ init_udp_socket \/ create_udp_socket \/ send_udp_request

StartupSpec == StartupInit /\ [][StartupNext]_startupVars

(***************************************************************************)
(* The main task, the driver's event task and lwIP run; a station that is  *)
(* connecting gets into a network or does not, and getaddrinfo returns,    *)
(* with an address or without.  That there is a network (Pico), that it    *)
(* gives an address to a station it has taken (ESP32) and that lwIP's name *)
(* server answers is not assumed.                                          *)
(***************************************************************************)
StartupFairness ==
  /\ WF_startupVars(wifi_start) /\ WF_startupVars(WaitedForWifi)
  /\ WF_startupVars(platform = "posix" /\ Connected)
  /\ WF_startupVars(StaStart)
  /\ WF_startupVars(station = "connecting" /\ (Associate \/ Disconnected))
  /\ WF_startupVars(resolve_server_address) /\ WF_startupVars(CopyAddress)
  /\ WF_startupVars(Poll)
  /\ WF_startupVars(init_udp_socket) /\ WF_startupVars(create_udp_socket)

FairStartup == StartupSpec /\ StartupFairness

-------------------------------------------------------------------------------
(***************************************************************************)
(* Properties.                                                             *)
(***************************************************************************)

StartupTypeOK ==
  /\ platform \in Platforms
  /\ main \in {"wifi", "resolve", "poll", "bind", "started"}
  /\ station \in {"off", "starting", "connecting", "associated", "up", "idle"}
  /\ bits \subseteq {"CONNECTED", "FAIL"}
  /\ retry_count \in 0 .. wifi_retries
  /\ in_a_row \in 0 .. wifi_retries + 1 /\ most \in 0 .. wifi_retries + 1
  /\ dns \in {"none", "asked", "copying", "done"}
  /\ attempts \in 0 .. max_attempts
  /\ {resolved, address, reported, socket, receiver, misdirected} \subseteq BOOLEAN

(***************************************************************************)
(* The station stands still only when it has said so, and it says so only  *)
(* after losing the network, or failing to find it, more than wifi_retries  *)
(* times with no address in between: a bad hour last week does not count.  *)
(***************************************************************************)
GivesUpLate ==
  /\ station = "idle" => "FAIL" \in bits
  /\ "FAIL" \in bits => most > wifi_retries

(***************************************************************************)
(* The DNS callback sets the flag before the address, and the poll looks at*)
(* the flag only; still, once start-up has logged the server's address as  *)
(* resolved, no request goes to address 0.  (After a time-out start-up has *)
(* logged no such thing, and until the answer comes requests go nowhere.)  *)
(***************************************************************************)
RequestsKnowTheServer == ~misdirected

(***************************************************************************)
(* Start-up ends, or waits for ever for one of two things: on a Pico for a *)
(* network that takes it, on an ESP32 for an address from the network that *)
(* has taken it.  Neither a network that refuses an ESP32 again and again  *)
(* nor a name server that never answers keeps enter_started_state from     *)
(* scheduling INITIALIZED.                                                 *)
(***************************************************************************)
WaitsForNetwork == main = "wifi" /\ (Pico \/ station = "associated")

StartupEnds == <>(main = "started") \/ <>[]WaitsForNetwork

===============================================================================
