CONSTANTS
  Framebuffers <- MCFramebuffers
  Lines <- MCLines
  Outputs <- MCOutputs
  Banner <- MCBanner
  CURSOR_ROWS = 8
  KEY_LIMIT = 3
SPECIFICATION Spec
INVARIANTS
  
  CursorOnScreen
