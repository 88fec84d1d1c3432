SPECIFICATION PteSpec
CONSTANTS
  Archs <- BothArchs
  Paddr <- HostAddrs
INVARIANTS FieldsIndependent TableNotPage PresentMeansUsable PermissionsExact EPTFlagsReadBack
