\* Two saves, and one edit of the file by hand.
SPECIFICATION Spec
CONSTANTS
  Modes = {"subscription", "gateway"}
  Looked = {"oauthToken", "baseUrl", "authToken"}
  Values = {1, 2}
  Environs <- NoEnviron
  Saves = {1, 2}
  Budget <- OneOfEach
PROPERTIES MaskLeavesAlone
CHECK_DEADLOCK FALSE
