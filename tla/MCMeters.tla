------------------------------ MODULE MCMeters -------------------------------
(* Small worlds: a memory of two pages in every use, and one of eleven that *)
(* are free or active; up to two swap devices; batteries with their files in *)
(* pairs and not; lamps, temperatures, layouts, formats, file systems and a  *)
(* directory; mixers; two access points and two interfaces.                  *)
EXTENDS Meters

MCRam ==
    {w \in [free : 0 .. 1, buffers : 0 .. 1, file : 0 .. 1, shmem : 0 .. 1, slab : 0 .. 1, rest : 0 .. 2] :
        pages(w) = 2}
    \cup {[free |-> 11 - n, buffers |-> 0, file |-> 0, shmem |-> 0, slab |-> 0, rest |-> n] : n \in 0 .. 11}

MCDevice == {[size |-> 1, used |-> 0], [size |-> 1, used |-> 1], [size |-> 2, used |-> 1]}
MCSwap ==
    {w \in [devices : UNION {[1 .. n -> MCDevice] : n \in 0 .. 2}, cached : 0 .. 1] : w.cached <= used(w)}

MCBattery ==
    [status : {"Charging", "Discharging", "Full", "Not charging", "Unknown"},
     charge : {0, 2}, flow : 0 .. 2, negative : BOOLEAN,
     files : {{"charge_now", "current_now"}, {"energy_now", "power_now"}, {"charge_now", "power_now"},
              {"charge_now", "energy_now", "current_now", "power_now"}, {"energy_now"}, {}}]

MCLayouts == {<<"us">>, <<"us", "ru">>, <<"de", "fr", "us">>}
MCKeyboard == UNION {[layouts : {l}, active : DOMAIN l] : l \in MCLayouts}

MCItem == [letter : {"c", "C", "n"}, optional : BOOLEAN]
MCIndicators == [items : UNION {[1 .. n -> MCItem] : n \in 0 .. 3}, leds : SUBSET {"c", "n"}]

MCDisk == {w \in [blocks : {0, 2, 3}, taken : 0 .. 3, reserved : 0 .. 1] : w.taken <= w.blocks}

MCDirectory == [first : {"."}, second : {".."}, third : {NULL, "a"}, fourth : {NULL, "b"}, fifth : {NULL, "c"}]

MCAlsa == {w \in [vol : {TRUE}, lowest : {-2, 0}, highest : {0, 8}, left : {-2, -1, 0, 1, 3, 8}, right : {0}] :
               w.left \in w.lowest .. w.highest}
MCOss == [vol : BOOLEAN, lowest : {0}, highest : {100}, left : {0, 40, 100}, right : {0, 100}]

MCNoise == -95
MCAir == {w \in [ap : {NULL, "home", "work"}, known : SUBSET {"home", "work"},
                 dbm : [{"home", "work"} -> {-110, -75, -40}], max_rssi : {0, 50}] :
              w.ap # NULL => w.ap \in w.known}

MCAddress == {[name |-> "eth0", family |-> "link", addr |-> "mac"],
              [name |-> "eth0", family |-> NULL, addr |-> NULL],
              [name |-> "eth0", family |-> "inet", addr |-> "10.0.0.1"],
              [name |-> "eth0", family |-> "inet6", addr |-> "fe80::1"],
              [name |-> "lo", family |-> "inet", addr |-> "127.0.0.1"]}
MCInterfaces == [list : UNION {[1 .. n -> MCAddress] : n \in 0 .. 2}]

MCWorlds(func_) ==
    CASE func_ \in RamFunctions          -> MCRam
      [] func_ \in SwapFunctions         -> MCSwap
      [] func_ \in BatteryFunctions      -> MCBattery
      [] func_ = "backlight_perc"        -> [max : {0, 2, 3, 6}, cur : 0 .. 2 \cup {6}]
      [] func_ = "temp"                  -> [tenths : {-15, -5, 0, 5, 255}]
      [] func_ = "keymap"                -> MCKeyboard
      [] func_ = "keyboard_indicators"   -> MCIndicators
      [] func_ \in DiskFunctions         -> MCDisk
      [] func_ = "num_files"             -> MCDirectory
      [] func_ = "vol_perc (ALSA)"       -> MCAlsa
      [] func_ = "vol_perc (OSS)"        -> MCOss
      [] func_ \in WifiFunctions         -> MCAir
      [] func_ \in IpFunctions           -> MCInterfaces
=============================================================================
