------------------------------- MODULE Serial -------------------------------
(***************************************************************************)
(* The input of the shell: the receive side of the serial devices          *)
(* (serial.c), opened, closed and read through device.c, whose interrupt   *)
(* handler releases the semaphore rx_sem of the shell, and the thread of   *)
(* the shell (shell.c), which reads byte after byte and takes rx_sem when  *)
(* there is none.  The shell may be switched to another device.            *)
(***************************************************************************)
EXTENDS Semaphore, SequencesExt

CONSTANTS Shell,      \* the thread of the shell
          Switchers,  \* the threads that call finsh_set_device
          Device, Console,
          NoDevice,
          bufsz,      \* serial->config.bufsz
          Bursts      \* the bytes one interrupt finds in the device

ASSUME SerialAssumption ==
  /\ Shell \in Thread /\ Switchers \subseteq Thread
  /\ Console \in Device /\ NoDevice \notin Device
  /\ bufsz \in Nat /\ bufsz >= 2

VARIABLES serial,  \* the fields of the devices
          shell    \* shell->device, where the shell is in its loop, and the
                   \* call of finsh_set_device that is being executed

svars == <<serial, shell>>
allvars == <<k, pc, mode, value, alive, serial, shell>>

Slots == 0 .. bufsz - 1

\* A slot without an unread byte is 0.
NewFifo == [buffer |-> [i \in Slots |-> 0], put_index |-> 0, get_index |-> 0,
            is_full |-> FALSE]

\* serial_rx is RT_NULL if rx is FALSE; irq is whether the device interrupts;
\* unread is history: the latest bytes that have not been read, one less than
\* there are slots.
Closed == [rx |-> FALSE, fifo |-> NewFifo, irq |-> FALSE, ref_count |-> 0,
           rx_indicate |-> FALSE, unread |-> <<>>]

\* rt_console_set_device has opened the console without RT_DEVICE_FLAG_INT_RX;
\* finsh_system_init has created the thread and the semaphore.
SerialInit ==
  /\ Init
  /\ serial = [d \in Device |-> [Closed EXCEPT !.ref_count = IF d = Console THEN 1 ELSE 0]]
  /\ shell = [device |-> NoDevice, at |-> "boot", by |-> Shell, new |-> NoDevice,
              step |-> "none"]

-----------------------------------------------------------------------------
\* The FIFO

NextSlot(i) == IF i + 1 >= bufsz THEN 0 ELSE i + 1

\* Mutant: the oldest byte is not discarded when the last slot is filled.
PutFills(f, b) ==
  [f EXCEPT !.buffer[f.put_index] = b, !.put_index = NextSlot(@)]

\* One byte in rt_hw_serial_isr; the byte that is discarded makes its slot free.
PutByte(f, b) ==
  LET p == NextSlot(f.put_index)
      g == [f EXCEPT !.buffer[f.put_index] = b, !.put_index = p]
  IN  IF p = f.get_index
        THEN [g EXCEPT !.get_index = NextSlot(@), !.is_full = TRUE, !.buffer[p] = 0]
        ELSE g

\* _serial_int_rx for one byte
FifoEmpty(f) == f.get_index = f.put_index /\ ~ f.is_full

GetByte(f) ==
  [f EXCEPT !.buffer[f.get_index] = 0, !.get_index = NextSlot(@), !.is_full = FALSE]

LatestOf(s) == IF Len(s) < bufsz THEN s ELSE SubSeq(s, Len(s) - bufsz + 2, Len(s))

\* rx_length of rt_hw_serial_isr
RxLength(f) ==
  IF f.put_index >= f.get_index THEN f.put_index - f.get_index
                                ELSE bufsz - (f.get_index - f.put_index)

-----------------------------------------------------------------------------
\* Mutant: the shell is not told of a single byte.
IsrManyOnly(d, s) ==
  /\ serial[d].irq /\ serial[d].rx
  /\ LET f == FoldLeft(PutByte, serial[d].fifo, s)
     IN  /\ serial' = [serial EXCEPT ![d].fifo = f, ![d].unread = LatestOf(@ \o s)]
         /\ IF serial[d].rx_indicate /\ RxLength(f) > 1
              THEN IrqRelease
              ELSE mode = "thread" /\ UNCHANGED <<k, pc, mode, value, alive>>
  /\ UNCHANGED shell

\* RT_SERIAL_EVENT_RX_IND of rt_hw_serial_isr, and finsh_rx_ind.  Nothing is
\* modelled after an interrupt that finds no FIFO.
Isr(d, s) ==
  /\ serial[d].irq /\ serial[d].rx
  /\ LET f == FoldLeft(PutByte, serial[d].fifo, s)
     IN  /\ serial' = [serial EXCEPT ![d].fifo = f, ![d].unread = LatestOf(@ \o s)]
         /\ IF serial[d].rx_indicate /\ RxLength(f) # 0
              THEN IrqRelease
              ELSE mode = "thread" /\ UNCHANGED <<k, pc, mode, value, alive>>
  /\ UNCHANGED shell

-----------------------------------------------------------------------------
\* finsh_getchar

\* The shell executes its loop, not finsh_set_device.
InLoop(l) ==
  /\ At(Shell, "user") /\ shell.at = l
  /\ shell.step = "none" \/ shell.by # Shell

\* rt_device_read for one byte
Read ==
  /\ InLoop("read")
  /\ LET d == shell.device
     IN  IF FifoEmpty(serial[d].fifo)
           THEN shell' = [shell EXCEPT !.at = "take"] /\ UNCHANGED serial
           ELSE /\ serial' = [serial EXCEPT ![d].fifo = GetByte(@),
                                            ![d].unread = Tail(@)]
                /\ UNCHANGED shell
  /\ UNCHANGED <<k, pc, mode, value, alive>>

TakeSem ==
  /\ InLoop("take")
  /\ Take(Shell, RT_WAITING_FOREVER)
  /\ shell' = [shell EXCEPT !.at = "read"]
  /\ UNCHANGED serial

-----------------------------------------------------------------------------
\* finsh_set_device

\* rt_device_open with RT_DEVICE_FLAG_INT_RX
Opened(r) ==
  [r EXCEPT !.ref_count = @ + 1, !.rx = TRUE, !.irq = TRUE,
            !.fifo = IF r.rx THEN @ ELSE NewFifo]

\* t switches the shell to device d, at first because the shell starts.
SwitchOpen(t, d) ==
  /\ At(t, "user") /\ shell.step = "none"
  /\ \/ shell.at = "boot" /\ t = Shell /\ d = Console
     \/ shell.at # "boot" /\ t \in Switchers /\ (t = Shell => shell.at = "read")
  /\ d # shell.device
  /\ serial' = [serial EXCEPT ![d] = Opened(@)]
  /\ shell' = [shell EXCEPT !.by = t, !.new = d,
                            !.step = IF shell.device = NoDevice THEN "set" ELSE "close"]
  /\ UNCHANGED <<k, pc, mode, value, alive>>

Switching(s) == At(shell.by, "user") /\ shell.step = s

Goes(s) == shell' = [shell EXCEPT !.step = s]

\* rt_device_close of the old device up to the end of its FIFO
SwitchClose ==
  /\ Switching("close")
  /\ LET d == shell.device
     IN  IF serial[d].ref_count = 1
           THEN /\ serial' = [serial EXCEPT ![d] =
                     [@ EXCEPT !.ref_count = 0, !.rx = FALSE, !.fifo = NewFifo,
                               !.unread = <<>>]]
                /\ Goes("clear")
           ELSE serial' = [serial EXCEPT ![d].ref_count = @ - 1] /\ Goes("forget")
  /\ UNCHANGED <<k, pc, mode, value, alive>>

\* RT_DEVICE_CTRL_CLR_INT
SwitchClear ==
  /\ Switching("clear")
  /\ serial' = [serial EXCEPT ![shell.device].irq = FALSE]
  /\ Goes("forget")
  /\ UNCHANGED <<k, pc, mode, value, alive>>

\* Mutant: the old device still tells the shell of its bytes.
SwitchForgetSkipped ==
  Switching("forget") /\ Goes("set") /\ UNCHANGED <<k, pc, mode, value, alive, serial>>

\* rt_device_set_rx_indicate of the old device
SwitchForget ==
  /\ Switching("forget")
  /\ serial' = [serial EXCEPT ![shell.device].rx_indicate = FALSE]
  /\ Goes("set")
  /\ UNCHANGED <<k, pc, mode, value, alive>>

SwitchSet ==
  /\ Switching("set")
  /\ shell' = [shell EXCEPT !.device = shell.new, !.step = "indicate"]
  /\ UNCHANGED <<k, pc, mode, value, alive, serial>>

SwitchIndicate ==
  /\ Switching("indicate")
  /\ serial' = [serial EXCEPT ![shell.new].rx_indicate = TRUE]
  /\ shell' = [shell EXCEPT !.step = "none", !.new = NoDevice, !.by = Shell,
                            !.at = IF @ = "boot" THEN "read" ELSE @]
  /\ UNCHANGED <<k, pc, mode, value, alive>>

Switch == SwitchClose \/ SwitchClear \/ SwitchForget \/ SwitchSet \/ SwitchIndicate

-----------------------------------------------------------------------------
ShellStep ==
  \/ Read \/ TakeSem \/ Switch
  \/ (WaitSchedule(Shell) \/ Return(Shell)) /\ UNCHANGED <<own, svars>>

SerialNext ==
  \/ \E d \in Device, s \in Bursts : Isr(d, s)
  \/ ShellStep
  \/ \E t \in Thread, d \in Device : SwitchOpen(t, d)
  \/ WholeTick /\ UNCHANGED <<own, svars>>

SerialSpec == SerialInit /\ [][SerialNext]_allvars

\* The shell goes on when it has the processor.
SerialFairSpec == SerialSpec /\ WF_allvars(ShellStep)

-----------------------------------------------------------------------------
\* The types of the devices, of the shell and of the kernel data.
SerialTypeOK ==
  /\ k \in KernelState
  /\ pc \in [Thread -> {"user", "wait", "woken"}]
  /\ value \in 0 .. RT_SEM_VALUE_MAX
  /\ shell.at \in {"boot", "read", "take"}
  /\ \A d \in Device :
       /\ serial[d].fifo.put_index \in Slots /\ serial[d].fifo.get_index \in Slots
       /\ serial[d].ref_count \in 0 .. 2

Contents(d) ==
  LET f == serial[d].fifo
  IN  [i \in 1 .. RxLength(f) |-> f.buffer[(f.get_index + i - 1) % bufsz]]

\* The FIFO holds the latest bytes in the order of their arrival, whatever
\* interrupts came between two reads and wherever the two indices are: an
\* overflow costs the oldest bytes and no others ("discard this 'read char'").
KeepsLatest ==
  SerialTypeOK /\ \A d \in Device : serial[d].rx =>
    /\ Contents(d) = serial[d].unread
    /\ FifoEmpty(serial[d].fifo) <=> serial[d].unread = <<>>

\* The shell never waits for rx_sem while its device has a byte for it, although
\* an interrupt with several bytes releases the semaphore once, and although
\* the count of the semaphore is bounded.
ShellNotDeaf ==
  Linked(Shell, Sem) /\ shell.step = "none" => serial[shell.device].unread = <<>>

\* A device whose ref_count is 0 does not interrupt, and one that is open for
\* the shell has a FIFO and tells the shell of its bytes.
OpenAgrees ==
  shell.step = "none" /\ shell.device # NoDevice =>
    \A d \in Device :
      /\ serial[d].ref_count = (IF d = Console THEN 1 ELSE 0)
                               + (IF d = shell.device THEN 1 ELSE 0)
      /\ serial[d].irq = serial[d].rx /\ (serial[d].irq => serial[d].ref_count > 0)
      /\ serial[d].rx_indicate <=> d = shell.device

\* A shell whose device has a byte comes to read it, wherever it was when the
\* byte arrived, unless it leaves the device.
ByteComesToShell ==
  (shell.device # NoDevice /\ serial[shell.device].unread # <<>>)
    ~> (InLoop("read") \/ shell.step # "none")
=============================================================================
