----------------------------- MODULE Designware -----------------------------
(***************************************************************************)
(* The descriptor rings of the Ethernet driver, kernel/designware.c, and   *)
(* the controller that shares them.  A descriptor belongs to the CPU or to *)
(* the controller (OWNBYDMA); each side walks the ring with an index of    *)
(* its own.  Frames are whatever the modules above make of them.           *)
(***************************************************************************)
EXTENDS Integers, Sequences

CONSTANTS
  TXNUM,   \* CONFIG_TX_DESCR_NUM
  RXNUM,   \* CONFIG_RX_DESCR_NUM
  NoFrame

ASSUME DesignwareConstants == TXNUM \in Nat \ {0} /\ RXNUM \in Nat \ {0}

VARIABLES
  tx,      \* transmit ring: descriptors, driver's and controller's index
  rx,      \* receive ring: the same
  status,  \* interrupt bits of the DMA status register
  held,    \* _dw_eth_send() has returned without release(&priv->lock)
  panicked \* acquire() of a lock this CPU holds

dwVars == <<tx, rx, status, held, panicked>>

Desc(own, f) == [own |-> own, frame |-> f]

\* tx_descs_init() and rx_descs_init()
DwInit ==
  /\ tx = [desc |-> [i \in 0..TXNUM - 1 |-> Desc("cpu", NoFrame)], cur |-> 0, hw |-> 0]
  /\ rx = [desc |-> [i \in 0..RXNUM - 1 |-> Desc("dma", NoFrame)], cur |-> 0, hw |-> 0]
  /\ status = {} /\ held = FALSE /\ panicked = FALSE

\* The index after i, with the wrap-around test.
TxNext(i) == IF i + 1 >= TXNUM THEN 0 ELSE i + 1
RxNext(i) == IF i + 1 >= RXNUM THEN 0 ELSE i + 1

\* Check if the descriptor is owned by CPU.
TxOwned_Any == FALSE
TxOwned == tx.desc[tx.cur].own = "dma"

\* _dw_eth_send(): the early return keeps the lock.
_dw_eth_send(f) ==
  IF held THEN panicked' = TRUE /\ UNCHANGED <<tx, held>>
  ELSE IF TxOwned THEN held' = TRUE /\ UNCHANGED <<tx, panicked>>
  ELSE /\ tx' = [tx EXCEPT !.desc[tx.cur] = Desc("dma", f), !.cur = TxNext(@)]
       /\ UNCHANGED <<held, panicked>>

\* _dw_eth_recv(): the frame at the driver's index, if the CPU has it.
RxFull == rx.desc[rx.cur].own = "cpu"
RxFrame == rx.desc[rx.cur].frame

\* _dw_free_pkt()
FreeNext(i) == RxNext(i)
_dw_free_pkt ==
  rx' = [rx EXCEPT !.desc[rx.cur] = Desc("dma", NoFrame), !.cur = FreeNext(@)]

-----------------------------------------------------------------------------
(***************************************************************************)
(* The controller, as the driver relies on it.  It takes up a suspended    *)
(* ring by itself when the next frame comes in, so that the driver's poll  *)
(* demands add nothing; of the status bits only RI and RU lead anywhere.   *)
(***************************************************************************)

\* It sends the next frame and gives the descriptor back.
dma_transmit ==
  /\ tx.desc[tx.hw].own = "dma"
  /\ tx' = [tx EXCEPT !.desc[tx.hw] = Desc("cpu", NoFrame), !.hw = TxNext(@)]
  /\ UNCHANGED <<rx, status, held, panicked>>

\* It stores a frame from the wire, or has no descriptor for it.
dma_receive(f) ==
  /\ IF rx.desc[rx.hw].own = "dma"
     THEN /\ rx' = [rx EXCEPT !.desc[rx.hw] = Desc("cpu", f), !.hw = RxNext(@)]
          /\ status' = status \cup {"RI"}
     ELSE rx' = rx /\ status' = status \cup {"RU"}
  /\ UNCHANGED <<tx, held, panicked>>

-----------------------------------------------------------------------------
(* What each ring holds, in order. *)

TxContents ==
  LET n == CHOOSE n \in 0..TXNUM :
             /\ \A k \in 0..n - 1 : tx.desc[(tx.hw + k) % TXNUM].own = "dma"
             /\ n < TXNUM => tx.desc[(tx.hw + n) % TXNUM].own = "cpu"
  IN [k \in 1..n |-> tx.desc[(tx.hw + k - 1) % TXNUM].frame]
RxContents ==
  LET n == CHOOSE n \in 0..RXNUM :
             /\ \A k \in 0..n - 1 : rx.desc[(rx.cur + k) % RXNUM].own = "cpu"
             /\ n < RXNUM => rx.desc[(rx.cur + n) % RXNUM].own = "dma"
  IN [k \in 1..n |-> rx.desc[(rx.cur + k - 1) % RXNUM].frame]
=============================================================================
