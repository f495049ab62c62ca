--------------------------- MODULE DeviceBinding ---------------------------
(***************************************************************************)
(* What the application and the device service rely on when they deal with *)
(* a device: it acts as bound only with the credential that a reset would  *)
(* find; it talks only when it was asked to since it was bound, once for   *)
(* each time it was asked; and it tells the service that a conversation    *)
(* ended at most once, at the end of that conversation and with the        *)
(* credential it was held with, also when the end of the conversation is   *)
(* the end of the binding.  Nothing is said here of the network, of calls  *)
(* that fail or of pairing: DeviceLifecycle implements this specification  *)
(* under all of them.                                                      *)
(***************************************************************************)
EXTENDS Naturals

CONSTANTS
  Credentials,  \* the credentials the service hands out
  NoCredential

VARIABLES
  power,        \* "off", "on", or "exiting" once the runtime was told to end
  phase,        \* "unbound", "bound" or "talking"
  credential,   \* the credential in memory
  record,       \* the credential a reset would find
  asked,        \* a conversation was asked for and has neither begun nor been dropped
  talks,        \* the conversations since power on; the last is the one the device is in
  told          \* the ends of conversations that are being told to the service

bindingVars == <<power, phase, credential, record, asked, talks, told>>

\* A record is removed, or a failing store keeps it.
Discard == record' \in {record, NoCredential}

Notice == [credential |-> credential, conversation |-> talks]

BindingInit ==
  /\ power = "off" /\ phase = "unbound"
  /\ credential = NoCredential
  /\ record \in Credentials \cup {NoCredential}
  /\ asked = FALSE /\ talks = 0 /\ told = {}

\* A device that finds a record is bound by it, unless it cannot be used.
Boot ==
  /\ power = "off" /\ power' = "on"
  /\ \/ /\ record # NoCredential
        /\ phase' = "bound" /\ credential' = record
        /\ UNCHANGED record
     \/ Discard /\ UNCHANGED <<phase, credential>>
  /\ UNCHANGED <<asked, talks, told>>

\* The runtime is told to end, also by an answer that it has no room for.
Exit ==
  /\ power = "on" /\ power' = "exiting"
  /\ told' \subseteq told
  /\ UNCHANGED <<phase, credential, record, asked, talks>>

\* The end of the runtime, or the loss of power at any point.
PowerOff ==
  /\ power # "off" /\ power' = "off"
  /\ phase' = "unbound" /\ credential' = NoCredential
  /\ asked' = FALSE /\ talks' = 0 /\ told' = {}
  /\ UNCHANGED record

\* The service hands out a credential, or the device stores again the one it
\* remembers.  It is bound once the store took it.
Claim ==
  /\ power = "on" /\ phase = "unbound"
  /\ credential' \in Credentials
  /\ \/ record' = credential' /\ phase' = "bound"
     \/ record' \in {record, credential'} /\ UNCHANGED phase
  /\ UNCHANGED <<power, asked, talks, told>>

\* The device is unbound: by its user, or because the service rejects it, which
\* the answer to a notice may say.
Forget ==
  /\ power # "off" /\ phase \in {"unbound", "bound"}
  /\ phase' = "unbound" /\ credential' = NoCredential
  /\ Discard
  /\ asked' = FALSE
  /\ told' \subseteq told
  /\ UNCHANGED <<power, talks>>

Ask ==
  /\ power = "on" /\ phase = "bound"
  /\ asked' = TRUE
  /\ UNCHANGED <<power, phase, credential, record, talks, told>>

\* The network is gone, the service refuses, or the device is to be paired again.
Withdraw ==
  /\ asked' = FALSE
  /\ UNCHANGED <<power, phase, credential, record, talks, told>>

Talk ==
  /\ phase = "bound" /\ asked
  /\ phase' = "talking" /\ asked' = FALSE
  /\ talks' = talks + 1
  /\ UNCHANGED <<power, credential, record, told>>

\* The conversation ends, alone or with the binding; the service may be told.
End ==
  /\ phase = "talking"
  /\ \/ phase' = "bound" /\ UNCHANGED <<credential, record>>
     \/ phase' = "unbound" /\ credential' = NoCredential /\ Discard
  /\ told' \in {told, told \cup {Notice}}
  /\ UNCHANGED <<power, asked, talks>>

\* Notices are answered or lost.
Deliver ==
  /\ told' \subseteq told
  /\ UNCHANGED <<power, phase, credential, record, asked, talks>>

BindingNext ==
  \/ Boot \/ Exit \/ PowerOff
  \/ Claim \/ Forget
  \/ Ask \/ Withdraw \/ Talk \/ End
  \/ Deliver

BindingSpec == BindingInit /\ [][BindingNext]_bindingVars
=============================================================================
