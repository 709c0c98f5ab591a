----------------------------- MODULE MCSamplers -----------------------------
(* Configurations: one for each function, with what may share its variable.  *)
EXTENDS Samplers

Rx(iface, k) == [func |-> "netspeed_rx", arg |-> iface, every |-> k]
Tx(iface, k) == [func |-> "netspeed_tx", arg |-> iface, every |-> k]
Plain(f) == [func |-> f, arg |-> NULL, every |-> 1]

MCConfigurations == {
    <<Rx("eth0", 1), Tx("eth0", 1)>>,       \* a variable each
    <<Rx("eth0", 2), Rx("wlan0", 1)>>,      \* one variable for two interfaces
    <<Plain("io_in"), Plain("io_out")>>,
    <<Plain("io_perc"), Plain("io_perc")>>,
    <<Plain("io_perc")>>,
    <<Plain("cpu_perc"), Plain("cpu_perc")>> }
=============================================================================
