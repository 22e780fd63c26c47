SPECIFICATION Spec
CONSTANTS
    Precision = 12
    Prices <- MCPrices
    MaxTickets = 10
    None = None
INVARIANTS TotalIsExact ToldAsListed
