CONSTANTS
  ByteBits = 3
  SymbolBits = 2
  Digest <- MCDigest
  DigestSize = 2
  PointOf <- MCPointOf
  Infinity = "O"
  Prefixes <- MCPrefixes
  MaxSymbols = 6
SPECIFICATION AddressSpec
INVARIANT
  DecodesExactly
