--------------------------- MODULE MCI2CManager ---------------------------
(***************************************************************************)
(* I2C scenarios: each processor with writes, reads and write-reads that   *)
(* fail and are retried, two multiplexers with twin devices, a bus that    *)
(* hangs, changes of the clock, the Wire library and the start-up scan.    *)
(***************************************************************************)
EXTENDS I2CManager

MCRequests == {1, 2, 3}

On(mux, bus, dev) == [mux |-> mux, bus |-> bus, dev |-> dev]
R(d, op, write, readLen, noretry) ==
  [mux |-> d.mux, bus |-> d.bus, dev |-> d.dev, op |-> op, write |-> write,
   readLen |-> readLen, noretry |-> noretry]

Main == On(None, None, 32)
Absent == On(None, None, 33)
Twin0 == On(0, 0, 34)
Twin1 == On(1, 0, 34)

Plain == [platform |-> "avr", devices |-> {Main}, muxes |-> {}, layouts |-> {{}}, addresses |-> {},
          buses |-> {}, submits |-> 3, faults |-> 1, clocks |-> <<>>, slow |-> TRUE,
          defaultClock |-> 400, arbitration |-> {"addrW", "addrR"}, outcomes |-> {},
          requests |-> <<R(Main, "SEND", <<5, 6, 7>>, 0, FALSE),
                         R(Main, "REQUEST", <<8>>, 3, FALSE),
                         R(Absent, "READ", <<>>, 2, FALSE)>>]

Avr == [Plain EXCEPT !.faults = 3]
Mega == [Plain EXCEPT !.platform = "mega4809"]
Samd == [Plain EXCEPT !.platform = "samd", !.arbitration = {}]
Stm == [Plain EXCEPT !.platform = "stm32",
  !.requests = <<R(Main, "SEND", <<5, 6, 7>>, 0, FALSE), R(Main, "REQUEST", <<8, 9>>, 4, FALSE),
                 R(Main, "READ", <<>>, 1, TRUE)>>]
Short == [Plain EXCEPT !.platform = "stm32", !.slow = FALSE,
  !.requests = <<R(Main, "SEND", <<>>, 0, TRUE), R(Main, "REQUEST", <<8>>, 2, FALSE),
                 R(Main, "READ", <<>>, 0, FALSE)>>]

\* Two multiplexers, a device with the same address behind each; an epilogue
\* may fail as often as it is tried, or hang.
Muxes == [Plain EXCEPT !.devices = {Main, Twin0, Twin1}, !.muxes = {0, 1}, !.faults = 3,
  !.requests = <<R(Twin0, "SEND", <<5, 6>>, 0, FALSE), R(Twin1, "REQUEST", <<8>>, 1, FALSE),
                 R(On(1, 1, 0), "SEND", <<>>, 0, TRUE)>>]

\* One multiplexer: its sub-bus stays selected, faults and hangs do no harm.
Mux == [Plain EXCEPT !.devices = {Main, Twin0}, !.muxes = {0}, !.platform = "samd", !.arbitration = {},
  !.requests = <<R(Twin0, "SEND", <<5, 6>>, 0, FALSE), R(On(2, 0, 34), "READ", <<>>, 1, FALSE),
                 R(Main, "REQUEST", <<8>>, 1, FALSE)>>]

Speed == [Plain EXCEPT !.faults = 0, !.submits = 2,
  !.clocks = <<[speed |-> 100, force |-> FALSE], [speed |-> 200, force |-> FALSE],
               [speed |-> 1000, force |-> TRUE], [speed |-> 50, force |-> FALSE]>>]

Wire == [Plain EXCEPT !.platform = "wire", !.submits = 2, !.devices = {Main, Twin0}, !.muxes = {0},
  !.requests = <<R(Twin0, "SEND", <<5, 6>>, 0, FALSE), R(Main, "REQUEST", <<8>>, 2, FALSE),
                 R(Main, "READ", <<>>, 2, TRUE)>>,
  !.outcomes = {[mux |-> "NEGATIVE_ACKNOWLEDGE", status |-> "OK", timeout |-> FALSE, count |-> 0],
                [mux |-> "OK", status |-> "NEGATIVE_ACKNOWLEDGE", timeout |-> FALSE, count |-> 0],
                [mux |-> "OK", status |-> "OK", timeout |-> TRUE, count |-> 0]}
               \cup {[mux |-> "OK", status |-> "OK", timeout |-> FALSE, count |-> n] : n \in 0..2}]

\* Up to three devices anywhere on two multiplexers with two sub-buses, no
\* address of the main bus used again.
Places == {On(None, None, 32)} \cup {On(m, b, a) : m \in {0, 1}, b \in {0, 1}, a \in {33, 34}}
Scan == [Plain EXCEPT !.submits = 0, !.muxes = {0, 1}, !.buses = {0, 1}, !.addresses = {32, 33, 34},
  !.requests = <<>>, !.layouts = {l \in SUBSET Places : Cardinality(l) \in 1..3}]

\* (The LET keeps the coverage statistics of TLC from entering the sessions at every use.)
AllSessions ==
  LET all ==
    [avr |-> Avr, mega |-> Mega, samd |-> Samd, stm |-> Stm, short |-> Short,
    muxes |-> Muxes, mux |-> Mux, speed |-> Speed, wire |-> Wire, scan |-> Scan]
  IN  all
============================================================================
