-------------------------------- MODULE Sdram --------------------------------
(* The SDRAM timing model (class SdramModel) behind SdramRamDevice: one open *)
(* row per host and bank, a controller per host that serves one transfer     *)
(* after the other, and a refresh every REFRESH_PERIOD device cycles that is *)
(* only noticed by the next access.                                          *)
(*                                                                           *)
(* The code keeps absolute device ticks (cur_tick / freq_ratio_); here they  *)
(* are relative to now, as in Ticks, and integers: the narrowing to int, that *)
(* is, runs of 2^31 device ticks, is left out, as are the counters.          *)
EXTENDS Integers

CONSTANTS
    freq_ratio,                         \* cpu_freq_mhz / DEV_MHZ
    N_HOSTS, Banks, Rows,               \* geometry
    REFRESH_PERIOD, PER_WORD, ACT_COST, PRE_COST, RD_BASE, WR_BASE,
    bst_len                             \* words of a burst (SdramRamDevice asserts >= 1)

\* A CPU slower than the device would make freq_ratio_ zero.  A word takes two
\* device cycles; with one, truncation to device ticks could make two transfers
\* of a host end together.
ASSUME SdramAssumption ==
    /\ {freq_ratio, N_HOSTS, REFRESH_PERIOD, bst_len} \subseteq Nat \ {0}
    /\ {ACT_COST, PRE_COST, RD_BASE, WR_BASE} \subseteq Nat
    /\ PER_WORD \in Nat \ {0, 1}

Closed == -1    \* bank.open = false

VARIABLES
    sub,        \* cur_tick % freq_ratio_
    dev,        \* cur_tick / freq_ratio_, folded once it passes REFRESH_PERIOD
    ctrl,       \* ctrl_free_at_[h] - dev_tick, 0 when already free
    next,       \* next_refresh_tick_ - dev_tick, not above 0 when overdue
    banks,      \* banks_[h][b]: the open row
    rows        \* history: the rows if every refresh closed them on time

sdVars == <<sub, dev, ctrl, next, banks, rows>>

AllClosed == [h \in 0..(N_HOSTS - 1) |-> [b \in Banks |-> Closed]]

SdramInit ==
    /\ sub = 0
    /\ dev = 0
    /\ ctrl = [h \in 0..(N_HOSTS - 1) |-> 0]
    /\ next = REFRESH_PERIOD
    /\ banks = AllClosed
    /\ rows = AllClosed

\* An access uses bank and row of the address and host min(host_id, N_HOSTS-1).
HostOf(h) == IF h < N_HOSTS THEN h ELSE N_HOSTS - 1

\* Mutated form: the refresh that is due now is not counted.
NextRefreshLate == IF next > 0 THEN next
                   ELSE next + ((-next) \div REFRESH_PERIOD) * REFRESH_PERIOD

\* check_refresh: next_refresh_tick_ moves past now, by whole periods ...
NextRefresh == IF next > 0 THEN next
               ELSE next + ((-next) \div REFRESH_PERIOD + 1) * REFRESH_PERIOD

\* ... and every bank of every host is closed when a refresh was due.
Refreshed == IF next > 0 THEN banks ELSE AllClosed

Extra(open, r) ==
    CASE open = Closed -> ACT_COST
      [] open = r      -> 0
      [] OTHER         -> PRE_COST + ACT_COST

\* Mutated form: the transfer starts without waiting for the controller.
CtrlFreeOverlaps(h, b, r, write) ==
    PER_WORD * bst_len + (IF write THEN WR_BASE ELSE RD_BASE)
    + Extra(Refreshed[HostOf(h)][b], r)

\* access: when the host's controller is free again, after this transfer.
CtrlFree(h, b, r, write) ==
    ctrl[HostOf(h)] + PER_WORD * bst_len + (IF write THEN WR_BASE ELSE RD_BASE)
    + Extra(Refreshed[HostOf(h)][b], r)

\* access: the latency in CPU ticks.
AccessLat(h, b, r, write) == CtrlFree(h, b, r, write) * freq_ratio

\* access: the state afterwards.
Access(h, b, r, write) ==
    /\ next' = NextRefresh
    /\ ctrl' = [ctrl EXCEPT ![HostOf(h)] = CtrlFree(h, b, r, write)]
    /\ banks' = [Refreshed EXCEPT ![HostOf(h)][b] = r]
    /\ rows' = [rows EXCEPT ![HostOf(h)][b] = r]
    /\ UNCHANGED <<sub, dev>>

\* The device clock moves every freq_ratio CPU ticks.  Folding keeps the
\* residues that check_refresh and reset_stats depend on.
DevTick ==
    /\ sub' = (sub + 1) % freq_ratio
    /\ IF sub' # 0
       THEN UNCHANGED <<dev, ctrl, next, rows>>
       ELSE /\ dev' = IF dev = 2 * REFRESH_PERIOD - 1 THEN REFRESH_PERIOD
                                                      ELSE dev + 1
            /\ ctrl' = [h \in DOMAIN ctrl |-> IF ctrl[h] > 0 THEN ctrl[h] - 1
                                                             ELSE 0]
            /\ next' = IF next = -REFRESH_PERIOD THEN -1 ELSE next - 1
            /\ rows' = IF dev' % REFRESH_PERIOD = 0 THEN AllClosed ELSE rows
    /\ UNCHANGED banks

\* The clock moves, then reset_stats: the transfers in progress are forgotten
\* and the refresh counter starts again from device tick REFRESH_PERIOD.
DevTickReset ==
    /\ sub' = (sub + 1) % freq_ratio
    /\ dev' = CASE sub' # 0 -> dev
                [] sub' = 0 /\ dev = 2 * REFRESH_PERIOD - 1 -> REFRESH_PERIOD
                [] OTHER -> dev + 1
    /\ ctrl' = [h \in DOMAIN ctrl |-> 0]
    /\ next' = REFRESH_PERIOD - dev'
    /\ banks' = AllClosed
    /\ rows' = AllClosed

\* Refreshing lazily is refreshing on time: what the next access would find
\* open is what it would find if every multiple of REFRESH_PERIOD had closed
\* all rows of all hosts, also after reset_stats has put the counter back.
RefreshOnTime == Refreshed = rows
=============================================================================
