\* Two processes reading and writing the console; a 2-byte line buffer and
\* a 1-byte UART ring, over indices wrapping at 4; up to 5 keyboard bytes
\* (printable, newline, carriage return, EOT, erase, kill-line) and 3
\* calls (reads of 2 bytes, writes of 1), any of whose user copies may
\* fail.
CONSTANTS
  p1 = p1  p2 = p2
  Procs = {p1, p2}
  Printable = {a}
  a = a
  LF = LF  CR = CR  EOT = EOT  BS = BS  DEL = DEL  BS_LINE = BS_LINE
  PRINT_PROCESS = PRINT_PROCESS  NUL = NUL  None = None
  Keys = {a, LF, CR, EOT, BS, BS_LINE}
  CONSOLE_BUF = 2
  UART_BUF = 1
  WRAP = 4
  MaxTyped = 5
  MaxCalls = 3
  ReadCounts = {2}
  WriteCounts = {1}
  CopyFaults = TRUE
SPECIFICATION Spec
PROPERTIES ConsoleSpec WriteCompletes
CHECK_DEADLOCK FALSE
VIEW Masked
