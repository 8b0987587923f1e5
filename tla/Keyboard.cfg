SPECIFICATION KbdSpec
CONSTANTS
  Letters = {a, b}
  Silent = {F1}
  LSHIFT = LSHIFT
  RSHIFT = RSHIFT
  KBD_BUF_SIZE = 4
SYMMETRY Perms
PROPERTY Fifo
