------------------------------- MODULE UartRing -------------------------------
(***************************************************************************)
(* The receive ring of the serial port: uart_handler (drivers/qemu/uart.c) *)
(* puts a byte in, circular_read (kernel/src/vfs/vfs_uart.c) takes bytes   *)
(* out.  The handler's index runs freely and is reduced only where it      *)
(* indexes the buffer; the reader's is kept reduced.  A byte is its place  *)
(* in the input.  Interrupts are masked during a read.                     *)
(***************************************************************************)
EXTENDS Integers

CONSTANTS BufSize,      \* UART0_INCOMING_BUFFER_SIZE; bound: bytes of one read
          MaxBytes      \* bound: bytes that arrive, and bytes delivered

VARIABLES buffer,       \* incoming_buffer
          head, tail,   \* incoming_buffer_head, incoming_buffer_tail
          delivered,    \* history: the bytes taken out so far
          stream        \* history: "intact" while they came out once and in
                        \* order; "overrun" once the input was a whole buffer
                        \* ahead of the readers; "garbled" otherwise

vars == <<buffer, head, tail, delivered, stream>>

Init ==
  /\ buffer = [i \in 0 .. (BufSize - 1) |-> 0]
  /\ head = 0 /\ tail = 0
  /\ delivered = 0 /\ stream = "intact"

\* uart_handler: it does not look at the reader's index.
Receive ==
  /\ head < MaxBytes
  /\ buffer' = [buffer EXCEPT ![head % BufSize] = head]
  /\ head' = head + 1
  /\ stream' = IF stream = "intact" /\ head + 1 - delivered > BufSize
               THEN "overrun" ELSE stream
  /\ UNCHANGED <<tail, delivered>>

Available == IF head >= tail THEN head - tail ELSE BufSize - tail + head

\* The k-th byte of a read is not the next one of the input.
Misread(k) == delivered + k >= head \/ buffer[(tail + k) % BufSize] # delivered + k

\* circular_read of count bytes, with something available.
CircularRead(count) ==
  LET n == IF count < Available THEN count ELSE Available IN
  /\ Available > 0 /\ delivered + n <= MaxBytes
  /\ tail' = (tail + n) % BufSize
  /\ delivered' = delivered + n
  /\ stream' = IF stream = "intact" /\ \E k \in 0 .. (n - 1) : Misread(k)
               THEN "garbled" ELSE stream
  /\ UNCHANGED <<buffer, head>>

Next == Receive \/ \E count \in 1 .. BufSize : CircularRead(count)

Spec == Init /\ [][Next]_vars

-------------------------------------------------------------------------------
\* "Calculate available data (handle wrap-around)" (circular_read): unless the
\* input gets a whole buffer ahead of them, readers get every byte once and in
\* order, also when the indices have gone round.
WrapAroundHandled == stream # "garbled"
===============================================================================
