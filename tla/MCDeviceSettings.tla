-------------------------- MODULE MCDeviceSettings --------------------------
(* A small instance of DeviceSettings for TLC. *)
EXTENDS DeviceSettings

CONSTANTS s1, s2

TwoSlots == {s1, s2}
TwoLabels == {"UTC", "Asia/Dubai"}
OffsetOf == [z \in TwoLabels |-> IF z = "UTC" THEN 0 ELSE 2]
TwoLeads == {0, 3}
Reports == {"a", "b", Blank}

\* A behaviour is about punches and labels, about setting the time, or about options.
NoCommands == commands = <<>> /\ call = Null
NoPunches == held = <<>> /\ measuring = [s \in Slots |-> Null] /\ settings.clockDrift = Null
NoAnswers == answering = [s \in Slots |-> Null] /\ option = [k \in Keys |-> "a"]
ClockUntouched == now = 0 /\ lead = 0 /\ label = "UTC"
                  /\ chosen \in {Null, label} /\ fields \in {Null, 0}

\* Two values are told apart at the address, which two queries ask for.
AddressAlone == option["volume"] = "a" /\ option["gateway"] # "b"

\* Cards that were first drawn under UTC, in the first minute.
OpenedAtOnce == chosen \in {Null, "UTC"} /\ mounted = 0 /\ fields \in {Null, 0}

Explored ==
    \/ NoCommands /\ NoAnswers /\ OpenedAtOnce /\ changes < MaxChanges
    \/ NoPunches /\ NoAnswers /\ changes < MaxChanges
    \/ /\ NoPunches /\ ClockUntouched /\ AddressAlone
       /\ changes < MaxChanges \/ view = "device"
=============================================================================
