\* Every text of up to eight tokens, for addresses of four groups: long enough for
\* a "::" that stands for no group.
CONSTANTS
    Shapes = {}
    Groups = 4
    GroupValues = {0}
    MaxTokens = 8
SPECIFICATION AddressSpec
INVARIANT MalformedIsRefused
