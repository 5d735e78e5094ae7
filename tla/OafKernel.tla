------------------------------ MODULE OafKernel ------------------------------
(***************************************************************************)
(* The part of the kernel module (oaf/src) that the daily time limit uses: *)
(* the client table (af_client.c), the /proc/sys/oaf switches and the      *)
(* blocked_macs command file (af_log.c), and the decision that the         *)
(* gateway hook takes before it looks at a packet's application            *)
(* (app_filter.c).  Packets, timers and sysctl writes run concurrently;    *)
(* each operation below is one critical section of af_client_lock, or one  *)
(* store to a sysctl integer, and is atomic.                               *)
(***************************************************************************)
EXTENDS Naturals, FiniteSets

CONSTANT Mac        \* the LAN devices

VARIABLES
  loaded,           \* is oaf.ko in the kernel, so that /proc/sys/oaf exists
  clients,          \* devices with an af_client_info_t in af_client_list_table
  blocked,          \* clients whose period_blocked flag is 1
  sysctl            \* the integer switches under /proc/sys/oaf, as Booleans

kernelVars == <<loaded, clients, blocked, sysctl>>

SysctlNames == {"enable", "record_enable", "disable_quic",
                "app_filter_mode", "split_time"}

SysctlDefault == [f \in SysctlNames |-> FALSE]

KernelTypeOK ==
  /\ loaded \in BOOLEAN
  /\ clients \subseteq Mac
  /\ blocked \subseteq clients
  /\ sysctl \in [SysctlNames -> BOOLEAN]

KernelInit(isLoaded) ==
  /\ loaded = isLoaded
  /\ clients = {}
  /\ blocked = {}
  /\ sysctl = SysctlDefault

-----------------------------------------------------------------------------
(* Packet and timer side.                                                  *)

\* af_client_hook sees the first packet of a device: a zeroed entry, hence
\* with period_blocked = 0.
NfClientAdd(m) ==
  /\ loaded
  /\ m \notin clients
  /\ clients' = clients \cup {m}
  /\ UNCHANGED <<loaded, blocked, sysctl>>

\* check_client_expire frees one entry idle for more than 90 seconds; the
\* flag goes with the entry.
CheckClientExpire(m) ==
  /\ m \in clients
  /\ clients' = clients \ {m}
  /\ blocked' = blocked \ {m}
  /\ UNCHANGED <<loaded, sysctl>>

\* The module is loaded by hand after oafd started (auto_load_engine '0').
Insmod ==
  /\ ~loaded
  /\ loaded' = TRUE
  /\ UNCHANGED <<clients, blocked, sysctl>>

-----------------------------------------------------------------------------
(* Writes by user space.  Without the module there is no file to write.    *)

WriteSysctl(f, v) ==
  sysctl' = IF loaded THEN [sysctl EXCEPT ![f] = v] ELSE sysctl

\* Faulty: the handler does not know the command.
BlockedMacsClearIgnored == blocked' = blocked

\* "clear": every entry of the table loses the flag.
BlockedMacsClear == blocked' = {}

\* Faulty: an entry is made up for a device that is not in the table.
BlockedMacsAddUnchecked(m) == blocked' = blocked \cup {m}

\* "+MAC": only a device that is in the table at this moment is flagged.
BlockedMacsAdd(m) == blocked' = blocked \cup ({m} \cap clients)

\* "-MAC"
BlockedMacsDel(m) == blocked' = blocked \ {m}

-----------------------------------------------------------------------------
(* The client table by itself, with the writes of blocked_macs, is what    *)
(* OafClients implements.                                                  *)

TableNext ==
  \/ \E m \in Mac : \/ NfClientAdd(m) \/ CheckClientExpire(m)
                    \/ /\ BlockedMacsAdd(m) \/ BlockedMacsDel(m)
                       /\ UNCHANGED <<loaded, clients, sysctl>>
  \/ BlockedMacsClear /\ UNCHANGED <<loaded, clients, sysctl>>

TableSpec == KernelInit(TRUE) /\ [][TableNext]_kernelVars

-----------------------------------------------------------------------------
(* The gateway hook.                                                       *)

\* split_active in app_filter_hook_gateway_handle
SplitActive == sysctl["split_time"] /\ sysctl["enable"]

\* The packet of client m goes on to the filter, instead of being accepted
\* whatever it carries.  In split mode only blocked clients do.
Restricted(m) ==
  /\ m \in clients
  /\ sysctl["enable"]
  /\ SplitActive => m \in blocked

\* The packet is dropped at once: blocked, split mode, all-apps mode.
CutOff(m) == SplitActive /\ Restricted(m) /\ sysctl["app_filter_mode"]

=============================================================================
