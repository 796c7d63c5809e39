---------------------------- MODULE MCMemFabric ----------------------------
(* An iCache (host 0, reads only), a StoreBuffer (host 1) and a bypass (host *)
(* 2, at the SRAM); two rows of one SDRAM bank and an SRAM address nested in *)
(* the SDRAM window (the first entry wins).  Timing constants are those of   *)
(* SdramModel scaled down, with the CPU at twice the device's clock.         *)
EXTENDS MemFabric

MCAddrMap ==
    << [lo |-> 4, hi |-> 4, device |-> "sram"],
       [lo |-> 4, hi |-> 8, device |-> "sdram"] >>

MCDevices == {"sdram", "sram"}
MCAddrs == {4, 5, 8}
MCBankOf == [a \in MCAddrs |-> 0]
MCRowOf == [a \in MCAddrs |-> a \div 6]

MCTraffic == {<<"R", 0, 5>>, <<"R", 1, 5>>, <<"R", 2, 4>>,
              <<"W", 1, 5>>, <<"W", 1, 8>>}

MCLatency ==
    [d \in MCDevices |-> [c \in Chans |->
        IF d = "sram" THEN {0} ELSE 1..18]]
=============================================================================
