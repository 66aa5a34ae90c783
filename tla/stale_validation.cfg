CONSTANTS
    outer = outer
    inner = inner
    name = name
    address = address
    good = good
    bad = bad
    odd = odd
    Builder = {outer, inner}
    Path = {name, address}
    Fields <- MCFields
    Value = {good, bad, odd}
    Default = good
    ValidIn = {good, odd}
    Checked = {address}
    Accepted = {good, bad}
    Option <- MCOption
SPECIFICATION Spec
INVARIANT
    ReadsValidateCurrentData
