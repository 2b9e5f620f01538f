SPECIFICATION RpcFairSpec
CONSTANTS
  Tools = {"gpio_set", "lcd_text"}
  HereTools = {}
  ThereTools = {"gpio_set"}
  MaxRetries = 3
  Port = 5300
  LittleEndian = FALSE
  MaxRepeats = 1
  MaxTokens = 3
  SeqW = 4
INVARIANTS RpcInv
PROPERTIES CallReturns
